---- MODULE Spec2Model ----
(***************************************************************************)
(* Model of the reconciliation core of git-phabricator-mirror: the comment *)
(* package (serialisation, hashing, the Overlaps matcher in its three      *)
(* source variants, FilterOverlapping), the transaction reconstructor      *)
(* LoadComments, and the per-repository pass mirrorRepoToReview.           *)
(*                                                                         *)
(* Conventions.  A Go string whose content is inspected is a sequence of   *)
(* one-character strings; LF is the newline character and BS the           *)
(* backslash.  A Go pointer is a sequence of length at most one: <<>> is   *)
(* nil and <<v>> points to v.  sha1 is modelled as injective: the hash of  *)
(* a comment is its serialised form.                                       *)
(***************************************************************************)
EXTENDS Integers, Sequences, FiniteSets, TLC

VARIABLES
  pc,                       \* position of the operation under way
  a, b, out,                \* the arguments of the function under check and what it returns
  threads, exclude, filtered, \* candidates, exclusions and result of FilterOverlapping
  log, pos,                 \* LoadComments: allTransactions and the loop index
  comments,                 \* LoadComments: the comments emitted so far
  commentsByPHID,           \* LoadComments: emitted comment per transaction PHID
  rejectionCommentsByUser,  \* LoadComments: rejection hashes per user name
  emittedAt,                \* history: index in comments of each transaction's own comment, 0 if dropped
  processedStates,          \* mirror: state hash per repository path at the last processing
  existingComments,         \* mirror: known comments (by hash) per revision
  openReviews,              \* mirror: cached open reviews per repository path
  repoState,                \* the local repositories: commits, request notes, comment notes
  remoteNotes,              \* the remote of each repository: its comment notes
  remoteReviews,            \* the review service: the open reviews
  transactionLogs,          \* the review service: the transaction log per review
  calls,                    \* history: the external calls of the last pass, in order
  lastPass,                 \* history: the latest pass and the state it started from
  settled,                  \* history: repositories whose last event is a completed pass
  passes,                   \* history: number of passes run
  ensuredRequest,           \* EnsureRequestExists: the request it is called with
  reviewsOnService,         \* Phabricator: the Differential reviews of any status
  conduitCalls,             \* history: the Conduit methods of the latest EnsureRequestExists
  serviceBefore,            \* history: the reviews as the latest EnsureRequestExists found them
  revisionsCreated,         \* history: number of differential.createrevision calls so far
  ensureCalls,              \* history: number of EnsureRequestExists calls so far
  diffsCreated,             \* history: review and commit of every diff made by updateReviewDiffs
  userQueryCache,           \* user.go: cached user per name
  userLookupCache,          \* user.go: cached user per PHID
  now,                      \* the clock read by time.Now(), in minutes
  lastLookup,               \* history: the latest userCacheLookup and the entry it found
  syncFlag,                 \* main: the value of the flag sync_to_remote
  repos, repoIndex,         \* main: the repositories found and the position of the range loop
  ticker,                   \* main: the ticks buffered in the channel of time.Tick
  mainTrace                 \* history: the calls of findRepos and mirror.Repo and the ticks received

commentVars == <<a, b, out>>

filterVars == <<threads, exclude, filtered>>

loadVars == <<log, pos, comments, commentsByPHID, rejectionCommentsByUser, emittedAt>>

mirrorVars ==
  <<processedStates, existingComments, openReviews, repoState, remoteNotes, remoteReviews,
    transactionLogs, calls, lastPass, settled, passes>>

ensureVars ==
  <<ensuredRequest, reviewsOnService, conduitCalls, serviceBefore, revisionsCreated,
    ensureCalls, diffsCreated>>

cacheVars == <<userQueryCache, userLookupCache, now, lastLookup>>

mainVars == <<syncFlag, repos, repoIndex, ticker, mainTrace>>

vars == <<pc, commentVars, filterVars, loadVars, mirrorVars, ensureVars, cacheVars, mainVars>>

(* the parts of the state that an operation under check does not use *)
CommentIdle == a = <<>> /\ b = <<>> /\ out = <<>>

MirrorIdle ==
  /\ processedStates = <<>> /\ existingComments = <<>> /\ openReviews = <<>>
  /\ repoState = <<>> /\ remoteNotes = <<>> /\ remoteReviews = <<>> /\ transactionLogs = <<>>
  /\ calls = <<>> /\ lastPass = <<>> /\ settled = {} /\ passes = 0

EnsureIdle ==
  /\ ensuredRequest = <<>>
  /\ reviewsOnService = <<>> /\ conduitCalls = <<>> /\ serviceBefore = <<>>
  /\ revisionsCreated = 0 /\ ensureCalls = 0 /\ diffsCreated = <<>>

CacheIdle ==
  userQueryCache = <<>> /\ userLookupCache = <<>> /\ now = 0 /\ lastLookup = <<>>

MainIdle ==
  syncFlag = FALSE /\ repos = <<>> /\ repoIndex = 0 /\ ticker = 0 /\ mainTrace = <<>>

FilterIdle == threads = <<>> /\ exclude = <<>> /\ filtered = <<>>

LoadIdle ==
  /\ log = <<>> /\ pos = 0 /\ comments = <<>>
  /\ commentsByPHID = <<>> /\ rejectionCommentsByUser = <<>> /\ emittedAt = <<>>


-----------------------------------------------------------------------------
(* Strings and pointers *)

LF == "LF"
BS == "BS"

Nil == <<>>

Ptr(v) == <<v>>

Deref(p) == p[1]

EmptyNote == [k \in {} |-> k]

(* strings.Replace(s, "\n", "\\n", -1) *)
RECURSIVE ReplaceNewlines(_)
ReplaceNewlines(s) ==
  IF s = <<>> THEN <<>>
  ELSE IF Head(s) = LF THEN <<BS, "n">> \o ReplaceNewlines(Tail(s))
  ELSE <<Head(s)>> \o ReplaceNewlines(Tail(s))

Digits == {"0", "1", "2", "3", "4", "5", "6", "7", "8", "9"}

DigitVal(ch) ==
  CASE ch = "0" -> 0 [] ch = "1" -> 1 [] ch = "2" -> 2 [] ch = "3" -> 3
    [] ch = "4" -> 4 [] ch = "5" -> 5 [] ch = "6" -> 6 [] ch = "7" -> 7
    [] ch = "8" -> 8 [] ch = "9" -> 9

DigitChar(d) ==
  CASE d = 0 -> "0" [] d = 1 -> "1" [] d = 2 -> "2" [] d = 3 -> "3"
    [] d = 4 -> "4" [] d = 5 -> "5" [] d = 6 -> "6" [] d = 7 -> "7"
    [] d = 8 -> "8" [] d = 9 -> "9"

AllDigits(s) == Len(s) > 0 /\ \A i \in 1..Len(s) : s[i] \in Digits

(* strconv.ParseInt(s, 10, 64) succeeds: an optional sign and digits *)
ParseIntOk(s) ==
  IF Len(s) > 0 /\ s[1] \in {"+", "-"} THEN AllDigits(Tail(s)) ELSE AllDigits(s)

RECURSIVE DigitsValue(_, _)
DigitsValue(s, acc) ==
  IF s = <<>> THEN acc ELSE DigitsValue(Tail(s), acc * 10 + DigitVal(Head(s)))

ParseInt(s) ==
  IF s[1] = "-" THEN 0 - DigitsValue(Tail(s), 0)
  ELSE IF s[1] = "+" THEN DigitsValue(Tail(s), 0)
  ELSE DigitsValue(s, 0)

(* fmt.Sprintf("%d", n) for n >= 0 *)
RECURSIVE FormatNat(_)
FormatNat(n) ==
  IF n < 10 THEN <<DigitChar(n)>> ELSE FormatNat(n \div 10) \o <<DigitChar(n % 10)>>

RECURSIVE ZeroPad(_, _)
ZeroPad(s, width) == IF Len(s) >= width THEN s ELSE ZeroPad(<<"0">> \o s, width)

TimestampWidth == 10

(* fmt.Sprintf("%010d", n): the sign precedes the zero padding *)
FormatPadded(n) ==
  IF n < 0 THEN <<"-">> \o ZeroPad(FormatNat(0 - n), TimestampWidth - 1)
  ELSE ZeroPad(FormatNat(n), TimestampWidth)

-----------------------------------------------------------------------------
(* encoding/json for strings: the newline and the backslash are escaped *)

RECURSIVE JsonEscape(_)
JsonEscape(s) ==
  IF s = <<>> THEN <<>>
  ELSE IF Head(s) = LF THEN <<BS, "n">> \o JsonEscape(Tail(s))
  ELSE IF Head(s) = BS THEN <<BS, BS>> \o JsonEscape(Tail(s))
  ELSE <<Head(s)>> \o JsonEscape(Tail(s))

RECURSIVE JsonUnescape(_)
JsonUnescape(s) ==
  IF s = <<>> THEN <<>>
  ELSE IF Head(s) = BS /\ Len(s) >= 2
    THEN (IF s[2] = "n" THEN <<LF>> ELSE <<s[2]>>) \o JsonUnescape(Tail(Tail(s)))
  ELSE <<Head(s)>> \o JsonUnescape(Tail(s))

-----------------------------------------------------------------------------
(* The comment package *)

CommentRange(line) == [StartLine |-> line]

CommentLocation(commit, path, range) == [Commit |-> commit, Path |-> path, Range |-> range]

Comment(ts, author, parent, loc, desc, resolved) ==
  [Timestamp |-> ts, Author |-> author, Parent |-> parent, Location |-> loc,
   Description |-> desc, Resolved |-> resolved]

(* json.Marshal of a CommentLocation: commit and path are omitempty,       *)
(* range is omitted when nil, startLine is always written                  *)
MarshalLocation(l) ==
  (IF l.Commit # "" THEN "commit" :> l.Commit ELSE EmptyNote) @@
  (IF l.Path # "" THEN "path" :> l.Path ELSE EmptyNote) @@
  (IF l.Range # Nil THEN "range" :> ("startLine" :> Deref(l.Range).StartLine) ELSE EmptyNote)

(* json.Marshal of a Comment: every field is omitempty *)
Marshal(c) ==
  (IF c.Timestamp # <<>> THEN "timestamp" :> JsonEscape(c.Timestamp) ELSE EmptyNote) @@
  (IF c.Author # <<>> THEN "author" :> JsonEscape(c.Author) ELSE EmptyNote) @@
  (IF c.Parent # <<>> THEN "parent" :> c.Parent ELSE EmptyNote) @@
  (IF c.Location # Nil THEN "location" :> MarshalLocation(Deref(c.Location)) ELSE EmptyNote) @@
  (IF c.Description # <<>> THEN "description" :> JsonEscape(c.Description) ELSE EmptyNote) @@
  (IF c.Resolved # Nil THEN "resolved" :> Deref(c.Resolved) ELSE EmptyNote)

(* bytes that are not a JSON object, such as the blank line between notes *)
InvalidNote == "invalid" :> TRUE

(* the error result of Parse: json.Unmarshal fails on anything but an object *)
ParseOk(note) == "invalid" \notin DOMAIN note

Field(note, key, zero) == IF key \in DOMAIN note THEN note[key] ELSE zero

(* UnmarshalLocation that does not read the range *)
UnmarshalLocationNoRange(n) ==
  CommentLocation(Field(n, "commit", ""), Field(n, "path", ""), Nil)

UnmarshalLocation(n) ==
  CommentLocation(Field(n, "commit", ""), Field(n, "path", ""),
                  IF "range" \in DOMAIN n
                    THEN Ptr(CommentRange(Field(n["range"], "startLine", 0)))
                    ELSE Nil)

(* Parse: json.Unmarshal into a zero Comment *)
Parse(note) ==
  Comment(JsonUnescape(Field(note, "timestamp", <<>>)),
          JsonUnescape(Field(note, "author", <<>>)),
          Field(note, "parent", <<>>),
          IF "location" \in DOMAIN note THEN Ptr(UnmarshalLocation(note["location"])) ELSE Nil,
          JsonUnescape(Field(note, "description", <<>>)),
          IF "resolved" \in DOMAIN note THEN Ptr(note["resolved"]) ELSE Nil)

(* serialize that leaves every timestamp as it is *)
serializeUnpadded(c) == Marshal(c)

(* Comment.serialize: timestamps shorter than 10 characters that parse as  *)
(* an integer are zero-padded to 10 characters                             *)
serialize(c) ==
  IF Len(c.Timestamp) < TimestampWidth /\ ParseIntOk(c.Timestamp)
    THEN Marshal([c EXCEPT !.Timestamp = FormatPadded(ParseInt(c.Timestamp))])
    ELSE Marshal(c)

Write(c) == serialize(c)

Hash(c) == <<"sha1", serialize(c)>>

(* Comment.QuoteDescription *)
QuoteDescription(c) == c.Author \o <<":", LF, LF>> \o c.Description

(* isQuote without the escaped-newline forms *)
isQuoteRawOnly(c, other) == c.Description = QuoteDescription(other)

(* Comment.isQuote *)
isQuote(c, other) ==
  \/ c.Description = QuoteDescription(other)
  \/ c.Description = ReplaceNewlines(QuoteDescription(other))
  \/ ReplaceNewlines(c.Description) = QuoteDescription(other)

(* descriptionOverlaps testing the quotation in one direction only *)
descriptionOverlapsOneWay(c, other) ==
  \/ c.Description = other.Description
  \/ isQuote(c, other)

(* Comment.descriptionOverlaps *)
descriptionOverlaps(c, other) ==
  \/ c.Description = other.Description
  \/ isQuote(c, other)
  \/ isQuote(other, c)

(* LocationOverlaps where a whole-file location matches any line of the file *)
LocationOverlapsFileMatchesLine(location, other) ==
  IF location.Commit # other.Commit THEN FALSE
  ELSE IF location.Path # other.Path THEN FALSE
  ELSE IF location.Range = Nil \/ other.Range = Nil THEN TRUE
  ELSE Deref(location.Range).StartLine = Deref(other.Range).StartLine

(* CommentLocation.Overlaps / LocationOverlaps *)
LocationOverlaps(location, other) ==
  IF location.Commit # other.Commit THEN FALSE
  ELSE IF location.Path # other.Path THEN FALSE
  ELSE IF location.Range = Nil /\ other.Range = Nil THEN TRUE
  ELSE IF location.Range = Nil \/ other.Range = Nil THEN FALSE
  ELSE Deref(location.Range).StartLine = Deref(other.Range).StartLine

(* Comment.Overlaps without the timestamp comparison *)
CommentOverlapsNoTimestamp(c, other) ==
  IF ~descriptionOverlaps(c, other) THEN FALSE
  ELSE IF (c.Resolved # Nil /\ other.Resolved = Nil) \/ (c.Resolved = Nil /\ other.Resolved # Nil)
    THEN FALSE
  ELSE IF c.Resolved # Nil /\ other.Resolved # Nil /\ Deref(c.Resolved) # Deref(other.Resolved)
    THEN FALSE
  ELSE IF c.Location = Nil /\ other.Location = Nil THEN TRUE
  ELSE IF c.Location = Nil \/ other.Location = Nil THEN FALSE
  ELSE LocationOverlaps(Deref(c.Location), Deref(other.Location))

(* Comment.Overlaps of the comment package (timestamp-strict) *)
CommentOverlaps(c, other) ==
  IF ~descriptionOverlaps(c, other) THEN FALSE
  ELSE IF (c.Resolved # Nil /\ other.Resolved = Nil) \/ (c.Resolved = Nil /\ other.Resolved # Nil)
    THEN FALSE
  ELSE IF c.Resolved # Nil /\ other.Resolved # Nil
          /\ (Deref(c.Resolved) # Deref(other.Resolved) \/ c.Timestamp # other.Timestamp)
    THEN FALSE
  ELSE IF c.Location = Nil /\ other.Location = Nil THEN TRUE
  ELSE IF c.Location = Nil \/ other.Location = Nil THEN FALSE
  ELSE LocationOverlaps(Deref(c.Location), Deref(other.Location))

(* Overlaps of the review package, older variant (timestamp-strict) *)
OverlapsStrict(c, other) ==
  IF ~descriptionOverlaps(c, other) THEN FALSE
  ELSE IF (c.Resolved # Nil /\ other.Resolved = Nil) \/ (c.Resolved = Nil /\ other.Resolved # Nil)
    THEN FALSE
  ELSE IF c.Resolved # Nil /\ other.Resolved # Nil
          /\ (Deref(c.Resolved) # Deref(other.Resolved) \/ c.Timestamp # other.Timestamp)
    THEN FALSE
  ELSE IF c.Location = Nil /\ other.Location = Nil THEN TRUE
  ELSE IF c.Location = Nil \/ other.Location = Nil THEN FALSE
  ELSE LocationOverlaps(Deref(c.Location), Deref(other.Location))

(* resolvedOverlaps of the review package, later variant *)
resolvedOverlaps(c, other) ==
  IF (c.Resolved # Nil /\ other.Resolved = Nil) \/ (c.Resolved = Nil /\ other.Resolved # Nil)
    THEN FALSE
  ELSE IF c.Resolved # Nil /\ other.Resolved # Nil /\ Deref(c.Resolved) # Deref(other.Resolved)
    THEN FALSE
  ELSE TRUE

(* Overlaps that never consults the resolved bits of located comments *)
OverlapsNoResolvedWhenLocated(c, other) ==
  IF ~descriptionOverlaps(c, other) THEN FALSE
  ELSE IF c.Location = Nil /\ other.Location = Nil THEN resolvedOverlaps(c, other)
  ELSE IF c.Location = Nil \/ other.Location = Nil THEN FALSE
  ELSE LocationOverlaps(Deref(c.Location), Deref(other.Location))

(* Overlaps of the review package, later variant (timestamp-agnostic) *)
Overlaps(c, other) ==
  IF ~descriptionOverlaps(c, other) THEN FALSE
  ELSE IF c.Location = Nil /\ other.Location = Nil THEN resolvedOverlaps(c, other)
  ELSE IF c.Location = Nil \/ other.Location = Nil THEN FALSE
  ELSE IF LocationOverlaps(Deref(c.Location), Deref(other.Location))
    THEN (IF Deref(c.Location).Path = "" THEN resolvedOverlaps(c, other) ELSE TRUE)
  ELSE FALSE

-----------------------------------------------------------------------------
(* FilterOverlapping.  A CommentMap is a function from hashes to commentMap; *)
(* Go iterates a map in an unspecified order, here the sequence order of   *)
(* the keys.  A CommentThread is [Hash, Comment, Children].                *)

(* CommentMap.FilterOverlapping of the comment package *)
CommentMapFilterOverlapping(commentMap, order, exclude_) ==
  LET passed(k) == \A i \in 1..Len(exclude_) : ~CommentOverlaps(exclude_[i], commentMap[k])
      kept == SelectSeq(order, passed)
  IN  [i \in 1..Len(kept) |-> commentMap[kept[i]]]

(* CommentMap.FilterOverlapping of the review package, older variant *)
ReviewMapFilterOverlapping(commentMap, order, exclude_) ==
  LET passed(k) == \A i \in 1..Len(exclude_) : ~OverlapsStrict(exclude_[i], commentMap[k])
      kept == SelectSeq(order, passed)
  IN  [i \in 1..Len(kept) |-> commentMap[kept[i]]]

(* CommentMap.AddThreads *)
RECURSIVE AddThreads(_, _)
AddThreads(commentMap, ths) ==
  IF ths = <<>> THEN commentMap
  ELSE LET thread == Head(ths)
           withThread == (thread.Hash :> thread.Comment) @@ commentMap
       IN  AddThreads(AddThreads(withThread, thread.Children), Tail(ths))

(* FilterOverlapping over threads, older variant: flatten, then filter *)
FilterOverlappingFlattened(ths, order, exclude_) ==
  ReviewMapFilterOverlapping(AddThreads(EmptyNote, ths), order, exclude_)

(* FilterOverlapping that does not descend into the children *)
RECURSIVE FilterOverlappingTopLevel(_, _)
FilterOverlappingTopLevel(ths, exclude_) ==
  IF ths = <<>> THEN <<>>
  ELSE LET thread == Head(ths)
           include == \A i \in 1..Len(exclude_) : ~Overlaps(exclude_[i], thread.Comment)
       IN  (IF include THEN <<thread.Comment>> ELSE <<>>)
             \o FilterOverlappingTopLevel(Tail(ths), exclude_)

(* FilterOverlapping over threads, later variant: children first, then the *)
(* thread's own comment                                                    *)
RECURSIVE FilterOverlapping(_, _)
FilterOverlapping(ths, exclude_) ==
  IF ths = <<>> THEN <<>>
  ELSE LET thread == Head(ths)
           include == \A i \in 1..Len(exclude_) : ~Overlaps(exclude_[i], thread.Comment)
       IN  FilterOverlapping(thread.Children, exclude_)
             \o (IF include THEN <<thread.Comment>> ELSE <<>>)
             \o FilterOverlapping(Tail(ths), exclude_)

-----------------------------------------------------------------------------
(* LoadComments: the reconstruction of comments from the transaction log   *)

User(userName, email) == [UserName |-> userName, Email |-> email]

(* lookupUser: the user of a PHID, nil when the service does not return     *)
(* exactly one user                                                        *)
lookupUser(userPHID) ==
  CASE userPHID = "u1" -> Ptr(User(<<"u", "1">>, <<"u", "1", "@">>))
    [] userPHID = "u2" -> Ptr(User(<<"u", "2">>, <<>>))
    [] OTHER -> Nil

TransactionComment(phid, commit, fileName, lineNumber, replyTo, content) ==
  [PHID |-> phid, Commit |-> commit, FileName |-> fileName, LineNumber |-> lineNumber,
   ReplyToCommentPHID |-> replyTo, Content |-> content]

(* a differentialDatabaseTransaction together with the row that            *)
(* readTransactionComment returns for it                                   *)
Transaction(phid, authorPHID, dateCreated, type, newValue, commentPHID, payload) ==
  [PHID |-> phid, AuthorPHID |-> authorPHID, DateCreated |-> dateCreated, Type |-> type,
   NewValue |-> newValue, CommentPHID |-> commentPHID, Payload |-> payload]

LoadState(cs, byPHID, rejections, at, crashed) ==
  [comments |-> cs, commentsByPHID |-> byPHID, rejectionCommentsByUser |-> rejections,
   emittedAt |-> at, crashed |-> crashed]

InitialLoadState == LoadState(<<>>, EmptyNote, EmptyNote, <<>>, FALSE)

MapGet(m, k, zero) == IF k \in DOMAIN m THEN m[k] ELSE zero

(* the comment of a transaction that keeps an unresolved reply-to reference *)
(* as its parent                                                           *)
TransactionBaseCommentKeepingReference(st, t, author) ==
  LET c0 == Comment(FormatNat(t.DateCreated),
                    IF author.Email # <<>> THEN author.Email ELSE author.UserName,
                    <<>>, Nil, <<>>, Nil)
      tc == t.Payload
      loc == IF tc.FileName # ""
               THEN Ptr(CommentLocation(tc.Commit, tc.FileName,
                          IF tc.LineNumber # 0 THEN Ptr(CommentRange(tc.LineNumber)) ELSE Nil))
               ELSE Nil
      parent == IF tc.ReplyToCommentPHID = Nil THEN <<>>
                ELSE IF Deref(tc.ReplyToCommentPHID) \in DOMAIN st.commentsByPHID
                  THEN Hash(st.commentsByPHID[Deref(tc.ReplyToCommentPHID)])
                  ELSE <<"0">>
  IN  IF t.CommentPHID # Nil
        THEN [c0 EXCEPT !.Location = loc, !.Description = tc.Content, !.Parent = parent]
        ELSE c0

(* the comment built for a transaction before the resolved bit is set      *)
TransactionBaseComment(st, t, author) ==
  LET c0 == Comment(FormatNat(t.DateCreated),
                    IF author.Email # <<>> THEN author.Email ELSE author.UserName,
                    <<>>, Nil, <<>>, Nil)
      tc == t.Payload
      loc == IF tc.FileName # ""
               THEN Ptr(CommentLocation(tc.Commit, tc.FileName,
                          IF tc.LineNumber # 0 THEN Ptr(CommentRange(tc.LineNumber)) ELSE Nil))
               ELSE Nil
      parent == IF tc.ReplyToCommentPHID # Nil
                   /\ Deref(tc.ReplyToCommentPHID) \in DOMAIN st.commentsByPHID
                  THEN Hash(st.commentsByPHID[Deref(tc.ReplyToCommentPHID)])
                  ELSE <<>>
  IN  IF t.CommentPHID # Nil
        THEN [c0 EXCEPT !.Location = loc, !.Description = tc.Content, !.Parent = parent]
        ELSE c0

IsAction(t, action) ==
  t.Type = "differential:action" /\ t.NewValue # Nil /\ Deref(t.NewValue) = action

(* the child comments that name the accept itself as their parent *)
ApproveCommentsOfAccept(c, rejections) ==
  [k \in 1..Len(rejections) |->
     Comment(c.Timestamp, c.Author, Hash(c), Nil, <<>>, Ptr(TRUE))]

(* the child comments appended for an accept: one per recorded rejection   *)
ApproveComments(c, rejections) ==
  [k \in 1..Len(rejections) |->
     Comment(c.Timestamp, c.Author, rejections[k], Nil, <<>>, Ptr(TRUE))]

(* the rejection history that forgets a user's rejections on an accept *)
RecordRejectionResetOnAccept(rejectionsByUser, userName, c) ==
  IF c.Resolved = Ptr(FALSE)
    THEN (userName :> (MapGet(rejectionsByUser, userName, <<>>) \o <<Hash(c)>>)) @@ rejectionsByUser
  ELSE IF c.Resolved = Ptr(TRUE) THEN (userName :> <<>>) @@ rejectionsByUser
  ELSE rejectionsByUser

(* a rejection comment is added to the list of its user, never removed *)
RecordRejection(rejectionsByUser, userName, c) ==
  IF c.Resolved = Ptr(FALSE)
    THEN (userName :> (MapGet(rejectionsByUser, userName, <<>>) \o <<Hash(c)>>)) @@ rejectionsByUser
    ELSE rejectionsByUser

(* the emission of an accept with its own comment before the children *)
EmitOwnFirst(emitted, children, own) == emitted \o own \o children

(* the emission of one transaction: the children, then the own comment *)
Emit(emitted, children, own) == emitted \o children \o own

(* the emission rule that looks at the description only *)
IsNonEmptyDescription(c) == c.Description # <<>>

(* the comments worth returning: those with a parent, a location, a        *)
(* description or a resolved value                                         *)
IsNonEmpty(c) ==
  c.Parent # <<>> \/ c.Location # Nil \/ c.Description # <<>> \/ c.Resolved # Nil

(* the map that also keeps the comments that are not returned *)
StoreByPHIDAlways(byPHID, t, c) == (t.PHID :> c) @@ byPHID

(* commentsByPHID[transaction.PHID] = c, inside the non-empty branch *)
StoreByPHID(byPHID, t, c) == IF IsNonEmpty(c) THEN (t.PHID :> c) @@ byPHID ELSE byPHID

(* one iteration of the loop over allTransactions *)
LoadStep(st, t) ==
  LET author == lookupUser(t.AuthorPHID)
  IN  IF author = Nil THEN [st EXCEPT !.crashed = TRUE]
      ELSE
        LET userName == Deref(author).UserName
            base == TransactionBaseComment(st, t, Deref(author))
            c == IF IsAction(t, "accept") THEN [base EXCEPT !.Resolved = Ptr(TRUE)]
                 ELSE IF IsAction(t, "reject") THEN [base EXCEPT !.Resolved = Ptr(FALSE)]
                 ELSE base
            rejections == MapGet(st.rejectionCommentsByUser, userName, <<>>)
            children == IF IsAction(t, "accept") THEN ApproveComments(c, rejections) ELSE <<>>
            nonEmpty == IsNonEmpty(c)
            withChildren == st.comments \o children
        IN  IF nonEmpty
              THEN LoadState(
                     Emit(st.comments, children, <<c>>),
                     StoreByPHID(st.commentsByPHID, t, c),
                     RecordRejection(st.rejectionCommentsByUser, userName, c),
                     st.emittedAt \o <<Len(withChildren) + 1>>,
                     FALSE)
              ELSE LoadState(withChildren, StoreByPHID(st.commentsByPHID, t, c),
                             st.rejectionCommentsByUser, st.emittedAt \o <<0>>, FALSE)

(* the value of a set with one element: a local of the code, computed once *)
The(S) == CHOOSE x \in S : TRUE

(* the loop of LoadComments over the transactions from index i on *)
RECURSIVE LoadLoop(_, _, _)
LoadLoop(st, transactions, i) ==
  IF i > Len(transactions) \/ st.crashed THEN st
  ELSE The({LoadLoop(next, transactions, i + 1) : next \in {LoadStep(st, transactions[i])}})

(* LoadComments: the emitted comments; the process dies on a crash *)
LoadComments(transactions) == LoadLoop(InitialLoadState, transactions, 1)

-----------------------------------------------------------------------------
(* The pass over one repository: mirrorRepoToReview *)

RECURSIVE SeqOf(_)
SeqOf(S) ==
  IF S = {} THEN <<>>
  ELSE LET x == CHOOSE y \in S : TRUE IN <<x>> \o SeqOf(S \ {x})

(* GetRepoStateHash: the hash of the refs, which move with every note *)
GetRepoStateHash(rs) == <<"sha1", rs>>

(* PullUpdates without error: fetch origin +refs/*:refs/* sets every local *)
(* ref that the remote has, the comment notes among them, to the remote's  *)
PullUpdates(rs, remote) == [rs EXCEPT !.comments = remote]

(* PushUpdates: the remote notes are fetched into the tracking ref, merged *)
(* into the local notes and the result is pushed; failure is the step that *)
(* fails, "" for none.  The remote is what the pass pulled, so the merge   *)
(* finds the tracking ref already contained in the local notes.            *)
PushNotes(rs, remote, failure) ==
  IF failure = "fetch" THEN [repo |-> rs, remote |-> remote]
  ELSE [repo |-> [rs EXCEPT !.tracked = remote],
        remote |-> IF failure = "push" THEN remote ELSE rs.comments]

(* GetNotes on the comment ref of a repository in state rs *)
GetCommentNotes(rs, revision) == MapGet(rs.comments, revision, <<>>)

(* GetNotes on the request ref *)
GetRequestNotes(rs, revision) == MapGet(rs.requests, revision, <<>>)

(* AppendNote that replaces the notes of the revision *)
AppendNoteReplacing(rs, revision, note) ==
  [rs EXCEPT !.comments = (revision :> <<note>>) @@ @]

(* AppendNote on the comment ref *)
AppendNote(rs, revision, note) ==
  [rs EXCEPT !.comments = (revision :> (MapGet(rs.comments, revision, <<>>) \o <<note>>)) @@ @]

(* ListNotedRevisions(request.Ref): the annotated objects that are commits *)
ListNotedRevisions(rs) ==
  SeqOf({r \in DOMAIN rs.requests : rs.requests[r] # <<>> /\ r \in DOMAIN rs.commits})

(* the parse that takes a note that is no comment for an empty comment *)
RECURSIVE ParseAllAsComments(_)
ParseAllAsComments(notes) ==
  IF notes = <<>> THEN EmptyNote
  ELSE (Hash(Parse(notes[Len(notes)])) :> Parse(notes[Len(notes)]))
         @@ ParseAllAsComments(SubSeq(notes, 1, Len(notes) - 1))

(* comment.ParseAllValid: the valid comments keyed by their hashes *)
RECURSIVE ParseAllValid(_)
ParseAllValid(notes) ==
  IF notes = <<>> THEN EmptyNote
  ELSE LET rest == ParseAllValid(SubSeq(notes, 1, Len(notes) - 1))
           note == notes[Len(notes)]
       IN  IF ParseOk(note) THEN (Hash(Parse(note)) :> Parse(note)) @@ rest ELSE rest

(* request.ParseAllValid: the notes that are valid requests, in order *)
RequestParseAllValid(notes) == SelectSeq(notes, ParseOk)

(* hasOverlap that asks for an overlap with every known comment *)
hasOverlapAll(newComment, existing) ==
  \A h \in DOMAIN existing : CommentOverlaps(newComment, existing[h])

(* hasOverlap of mirror.go *)
hasOverlap(newComment, existing) ==
  \E h \in DOMAIN existing : CommentOverlaps(newComment, existing[h])

(* repo.GetDetails(commit): the details of a commit of the repository,     *)
(* with the time as the repository gives it; Nil for the error             *)
GetDetails(rs, commit) ==
  IF commit \in DOMAIN rs.commits THEN Ptr([Time |-> rs.commits[commit]]) ELSE Nil

(* GetFirstCommit, first loop: the hash pairs of two elements whose first  *)
(* is "gtcm"                                                               *)
RECURSIVE HashedCommits(_)
HashedCommits(hashes) ==
  IF hashes = <<>> THEN <<>>
  ELSE (IF Len(Head(hashes)) = 2 /\ Head(hashes)[1] = "gtcm" THEN <<Head(hashes)[2]>> ELSE <<>>)
       \o HashedCommits(Tail(hashes))

(* the second loop with the error of strconv.Atoi dropped: the timestamp   *)
(* of a time that is no integer is 0                                       *)
RECURSIVE TimestampLoopUnchecked(_, _, _, _)
TimestampLoopUnchecked(rs, commits, commitTimestamps, commitsByTimestamp) ==
  IF commits = <<>>
    THEN [commitTimestamps |-> commitTimestamps, commitsByTimestamp |-> commitsByTimestamp]
  ELSE The({
    IF details # Nil
      THEN The({TimestampLoopUnchecked(rs, Tail(commits), Append(commitTimestamps, timestamp),
                                       (timestamp :> Head(commits)) @@ commitsByTimestamp)
                : timestamp \in {IF ParseIntOk(Deref(details).Time)
                                   THEN ParseInt(Deref(details).Time) ELSE 0}})
    ELSE TimestampLoopUnchecked(rs, Tail(commits), commitTimestamps, commitsByTimestamp)
    : details \in {GetDetails(rs, Head(commits))}})

(* GetFirstCommit, second loop: a commit whose details the repository      *)
(* returns with an integer time adds its timestamp and takes the           *)
(* timestamp's place in commitsByTimestamp ("the last one wins")           *)
RECURSIVE TimestampLoop(_, _, _, _)
TimestampLoop(rs, commits, commitTimestamps, commitsByTimestamp) ==
  IF commits = <<>>
    THEN [commitTimestamps |-> commitTimestamps, commitsByTimestamp |-> commitsByTimestamp]
  ELSE The({
    IF details # Nil /\ ParseIntOk(Deref(details).Time)
      THEN The({TimestampLoop(rs, Tail(commits), Append(commitTimestamps, timestamp),
                              (timestamp :> Head(commits)) @@ commitsByTimestamp)
                : timestamp \in {ParseInt(Deref(details).Time)}})
    ELSE TimestampLoop(rs, Tail(commits), commitTimestamps, commitsByTimestamp)
    : details \in {GetDetails(rs, Head(commits))}})

(* sort.Ints(commitTimestamps); commitTimestamps[0] *)
Oldest(commitTimestamps) ==
  CHOOSE t \in {commitTimestamps[i] : i \in 1..Len(commitTimestamps)} :
    \A i \in 1..Len(commitTimestamps) : t <= commitTimestamps[i]

(* differentialReview.GetFirstCommit: the oldest commit of the review that  *)
(* the repository knows; among equally old ones the last listed wins       *)
GetFirstCommit(review, rs) ==
  The({IF Len(r.commitTimestamps) = 0 THEN Nil
       ELSE Ptr(r.commitsByTimestamp[Oldest(r.commitTimestamps)])
       : r \in {TimestampLoop(rs, HashedCommits(review.Hashes), <<>>, EmptyNote)}})

Call(op, args) == [op |-> op, args |-> args]

(* the loop over the noted revisions that hands the comments cached by an  *)
(* earlier pass to the review tool                                         *)
RECURSIVE MirrorRequestsStaleComments(_, _, _, _)
MirrorRequestsStaleComments(rs, revisions, known, trace) ==
  IF revisions = <<>> THEN [existingComments |-> known, calls |-> trace]
  ELSE The({ LET revision == Head(revisions)
                 requests == RequestParseAllValid(GetRequestNotes(rs, revision))
                 ensure == [i \in 1..Len(requests) |->
                              Call("EnsureRequestExists",
                                   <<revision, requests[i], MapGet(known, revision, EmptyNote)>>)]
             IN  MirrorRequestsStaleComments(rs, Tail(revisions), (revision :> parsed) @@ known,
                                             trace \o ensure)
             : parsed \in {ParseAllValid(GetCommentNotes(rs, Head(revisions)))} })

(* lines 162-167: the known comments of every revision with a request note *)
(* are re-read and every valid request is handed to the review tool        *)
RECURSIVE MirrorRequests(_, _, _, _)
MirrorRequests(rs, revisions, known, trace) ==
  IF revisions = <<>> THEN [existingComments |-> known, calls |-> trace]
  ELSE The({ LET revision == Head(revisions)
                 requests == RequestParseAllValid(GetRequestNotes(rs, revision))
                 ensure == [i \in 1..Len(requests) |->
                              Call("EnsureRequestExists", <<revision, requests[i], parsed>>)]
             IN  MirrorRequests(rs, Tail(revisions), (revision :> parsed) @@ known,
                                trace \o ensure)
             : parsed \in {ParseAllValid(GetCommentNotes(rs, Head(revisions)))} })

(* lines 177-189: every loaded comment that overlaps no known comment of   *)
(* the revision is appended as a note; the known comments are not updated  *)
RECURSIVE AppendNew(_, _, _, _, _)
AppendNew(rs, revision, revisionComments, loaded, trace) ==
  IF loaded = <<>> THEN [repo |-> rs, calls |-> trace]
  ELSE LET c == Head(loaded)
       IN  IF ~hasOverlap(c, revisionComments)
             THEN The({ AppendNew(rs2, revision, revisionComments, Tail(loaded),
                                  trace \o <<Call("AppendNote", <<revision, Write(c), c.Author>>)>>)
                        : rs2 \in {AppendNote(rs, revision, Write(c))} })
             ELSE AppendNew(rs, revision, revisionComments, Tail(loaded), trace)

(* lines 174-190: one open review whose first commit is reviewCommit *)
HarvestReview(rs, review, reviewCommit, known, trace) ==
  IF reviewCommit = Nil
    THEN [repo |-> rs, existingComments |-> known, crashed |-> FALSE,
          calls |-> trace \o <<Call("GetFirstCommit", <<review.ID>>)>>]
    ELSE
      The({ LET trace2 == trace \o <<Call("GetFirstCommit", <<review.ID>>),
                                     Call("LoadComments", <<review.ID>>)>>
            IN  IF loaded.crashed
                  THEN [repo |-> rs, existingComments |-> known2, crashed |-> TRUE,
                        calls |-> trace2]
                  ELSE The({ [repo |-> appended.repo, existingComments |-> known2,
                              crashed |-> FALSE, calls |-> appended.calls]
                             : appended \in {AppendNew(rs, Deref(reviewCommit),
                                                       known2[Deref(reviewCommit)],
                                                       loaded.comments, trace2)} })
            (* getExistingComments stores an empty map for an unknown revision *)
            : known2 \in {IF Deref(reviewCommit) \in DOMAIN known THEN known
                          ELSE (Deref(reviewCommit) :> EmptyNote) @@ known},
              loaded \in {LoadComments(transactionLogs[review.ID])} })

(* lines 172-191: the loop over the cached open reviews *)
RECURSIVE Harvest(_, _, _, _)
Harvest(rs, reviews, known, trace) ==
  IF reviews = <<>>
    THEN [repo |-> rs, existingComments |-> known, calls |-> trace, crashed |-> FALSE]
  ELSE The({ IF one.crashed THEN one
             ELSE Harvest(one.repo, Tail(reviews), one.existingComments, one.calls)
             : one \in {HarvestReview(rs, Head(reviews), GetFirstCommit(Head(reviews), rs),
                                      known, trace)} })

(* a fingerprint test that never finds the repository unchanged *)
ChangedAlways(repo, rs) == TRUE

(* line 160: processedStates[repo.GetPath()] != stateHash *)
Changed(repo, rs) == MapGet(processedStates, repo, <<>>) # GetRepoStateHash(rs)

(* lines 159-170: the requests are mirrored when the fingerprint moved *)
MirrorIfChanged(repo, rs, firstCalls) ==
  IF Changed(repo, rs)
    THEN The({ [processedStates |-> (repo :> GetRepoStateHash(rs)) @@ processedStates,
                existingComments |-> mirrored.existingComments,
                openReviews |-> (repo :> remoteReviews) @@ openReviews,
                calls |-> mirrored.calls \o <<Call("ListOpenReviews", <<repo>>),
                                              Call("Refresh", <<repo>>)>>]
               : mirrored \in {MirrorRequests(rs, ListNotedRevisions(rs),
                                              existingComments, firstCalls)} })
    ELSE [processedStates |-> processedStates, existingComments |-> existingComments,
          openReviews |-> openReviews, calls |-> firstCalls]

(* a push that is attempted a second time within the pass when it fails *)
PushUpdatesRetried(trace, repo, pushErr) ==
  trace \o (IF pushErr # "" THEN <<Call("PushUpdates", <<repo>>), Call("PushUpdates", <<repo>>)>>
            ELSE <<Call("PushUpdates", <<repo>>)>>)

(* lines 192-196: one PushUpdates, whose error is only logged *)
PushUpdates(trace, repo, pushErr) == trace \o <<Call("PushUpdates", <<repo>>)>>

(* a pull whose error is ignored *)
PullNeverAborts(syncToRemote, pullErr) == FALSE

(* lines 152-157: the pass returns when the pull fails *)
PullAborts(syncToRemote, pullErr) == syncToRemote /\ pullErr

(* a pass that harvests the reviews only when the fingerprint moved *)
MirrorAfterPullHarvestIfChanged(repo, rs, remote, syncToRemote, pushErr, firstCalls) ==
  The({ The({ LET pushed == IF syncToRemote /\ ~harvested.crashed
                              THEN PushNotes(harvested.repo, remote, pushErr)
                              ELSE [repo |-> harvested.repo, remote |-> remote]
              IN  [processedStates |-> m.processedStates,
                   existingComments |-> harvested.existingComments,
                   openReviews |-> m.openReviews,
                   repo |-> pushed.repo,
                   remote |-> pushed.remote,
                   calls |-> IF syncToRemote /\ ~harvested.crashed
                               THEN PushUpdates(harvested.calls, repo, pushErr)
                               ELSE harvested.calls,
                   crashed |-> harvested.crashed]
              : harvested \in {IF Changed(repo, rs)
                                 THEN Harvest(rs, MapGet(m.openReviews, repo, <<>>),
                                              m.existingComments, m.calls)
                                 ELSE [repo |-> rs, existingComments |-> m.existingComments,
                                       calls |-> m.calls, crashed |-> FALSE]} })
        : m \in {MirrorIfChanged(repo, rs,
                                 firstCalls \o <<Call("GetRepoStateHash", <<repo>>)>>)} })

(* mirrorRepoToReview from the fingerprint on (lines 159-196), rs being    *)
(* the repository after the pull and remote the notes of its remote        *)
MirrorAfterPull(repo, rs, remote, syncToRemote, pushErr, firstCalls) ==
  The({ The({ LET pushed == IF syncToRemote /\ ~harvested.crashed
                              THEN PushNotes(harvested.repo, remote, pushErr)
                              ELSE [repo |-> harvested.repo, remote |-> remote]
              IN  [processedStates |-> m.processedStates,
                   existingComments |-> harvested.existingComments,
                   openReviews |-> m.openReviews,
                   repo |-> pushed.repo,
                   remote |-> pushed.remote,
                   calls |-> IF syncToRemote /\ ~harvested.crashed
                               THEN PushUpdates(harvested.calls, repo, pushErr)
                               ELSE harvested.calls,
                   crashed |-> harvested.crashed]
              : harvested \in {Harvest(rs, MapGet(m.openReviews, repo, <<>>),
                                       m.existingComments, m.calls)} })
        : m \in {MirrorIfChanged(repo, rs,
                                 firstCalls \o <<Call("GetRepoStateHash", <<repo>>)>>)} })

-----------------------------------------------------------------------------
(* Input domains of the comment package *)

MaxLine == 2

Authors == {<<"u">>, <<"v">>}

BaseDescriptions == {<<"a", LF, "b">>}

QuotedBy == <<"u">>

QuotedDescriptions ==
  {QuoteDescription([Author |-> QuotedBy, Description |-> d]) : d \in BaseDescriptions}

Descriptions ==
  BaseDescriptions \cup QuotedDescriptions \cup {ReplaceNewlines(q) : q \in QuotedDescriptions}

Timestamps == {<<"5">>, <<"0", "5">>}

ResolvedValues == {Nil, Ptr(TRUE), Ptr(FALSE)}

Locations ==
  {Nil, Ptr(CommentLocation("C2", "f", Nil))}
  \cup {Ptr(CommentLocation("C1", p, r)) :
          p \in {"", "f"}, r \in {Nil} \cup {Ptr(CommentRange(n)) : n \in 1..MaxLine}}

RootComment == Comment(<<"1">>, <<"u">>, <<>>, Nil, <<"r">>, Nil)

Parents == {<<>>, Hash(RootComment)}

CommentsWithParent(parents) ==
  {Comment(ts, au, pa, lo, de, re) :
     ts \in Timestamps, au \in Authors, pa \in parents, lo \in Locations,
     de \in Descriptions, re \in ResolvedValues}

-----------------------------------------------------------------------------
(* The three Overlaps variants applied to a pair of comments, both ways *)

InitOverlaps ==
  /\ pc = "init"
  /\ a \in CommentsWithParent({<<>>})
  /\ b \in CommentsWithParent(Parents)
  /\ out = <<>>
  /\ FilterIdle
  /\ LoadIdle
  /\ MirrorIdle
  /\ EnsureIdle
  /\ MainIdle
  /\ CacheIdle

CallOverlaps ==
  /\ pc = "init"
  /\ pc' = "overlaps"
  /\ out' = [comment_ab |-> CommentOverlaps(a, b), comment_ba |-> CommentOverlaps(b, a),
             strict_ab |-> OverlapsStrict(a, b), strict_ba |-> OverlapsStrict(b, a),
             agnostic_ab |-> Overlaps(a, b), agnostic_ba |-> Overlaps(b, a)]
  /\ UNCHANGED <<a, b, filterVars, loadVars, mirrorVars, ensureVars, cacheVars, mainVars>>

NextOverlaps == CallOverlaps

SpecOverlaps == InitOverlaps /\ [][NextOverlaps]_vars

-----------------------------------------------------------------------------
(* Write, Parse and Hash applied to one comment *)

RoundTripTimestamps ==
  {<<>>, <<"5">>, <<"0", "5">>, <<"-", "5">>, <<"+", "5">>, <<"x">>,
   <<"1", "2", "3", "4", "5", "6", "7", "8", "9", "0">>}

RoundTripLocations ==
  Locations \cup {Ptr(CommentLocation("", "", Nil)), Ptr(CommentLocation("C1", "f", Ptr(CommentRange(0))))}

RoundTripComments ==
  {Comment(ts, au, pa, lo, de, re) :
     ts \in RoundTripTimestamps, au \in Authors \cup {<<>>}, pa \in Parents,
     lo \in RoundTripLocations, de \in Descriptions \cup {<<>>}, re \in ResolvedValues}

InitRoundTrip ==
  /\ pc = "init"
  /\ a \in RoundTripComments
  /\ b = a
  /\ out = <<>>
  /\ FilterIdle
  /\ LoadIdle
  /\ MirrorIdle
  /\ EnsureIdle
  /\ MainIdle
  /\ CacheIdle

CallWriteParse ==
  /\ pc = "init"
  /\ pc' = "roundtrip"
  /\ LET note == Write(a)
     IN  out' = [note |-> note, ok |-> ParseOk(note), parsed |-> Parse(note),
                 hash |-> Hash(a), parsedHash |-> Hash(Parse(note))]
  /\ UNCHANGED <<a, b, filterVars, loadVars, mirrorVars, ensureVars, cacheVars, mainVars>>

NextRoundTrip == CallWriteParse

SpecRoundTrip == InitRoundTrip /\ [][NextRoundTrip]_vars

(* serialize, Write and Hash on two comments that differ in the timestamp *)
SerializeTimestamps ==
  {<<>>, <<"5">>, <<"0", "5">>, <<"+", "5">>, <<"-", "5">>, <<"6">>, <<"x">>, <<"5", "x">>,
   <<"1", "2", "3", "4", "5">>, <<"0", "1", "2", "3", "4", "5">>,
   <<"0", "0", "0", "0", "0", "0", "0", "0", "0", "5">>,
   <<"1", "2", "3", "4", "5", "6", "7", "8", "9", "0", "1">>}

SerializeComments ==
  {Comment(<<>>, au, <<>>, lo, de, re) :
     au \in {<<>>, <<"u">>}, lo \in {Nil, Ptr(CommentLocation("C1", "f", Ptr(CommentRange(1))))},
     de \in {<<>>, <<"a", LF, "b">>}, re \in {Nil, Ptr(TRUE)}}

InitSerialize ==
  /\ pc = "init"
  /\ \E c \in SerializeComments, ta \in SerializeTimestamps, tb \in SerializeTimestamps :
       /\ a = [c EXCEPT !.Timestamp = ta]
       /\ b = [c EXCEPT !.Timestamp = tb]
  /\ out = <<>>
  /\ FilterIdle
  /\ LoadIdle
  /\ MirrorIdle
  /\ EnsureIdle
  /\ MainIdle
  /\ CacheIdle

CallSerialize ==
  /\ pc = "init"
  /\ pc' = "serialized"
  /\ out' = [bytesA |-> serialize(a), bytesB |-> serialize(b),
             noteA |-> Write(a), noteB |-> Write(b),
             hashA |-> Hash(a), hashB |-> Hash(b)]
  /\ UNCHANGED <<a, b, filterVars, loadVars, mirrorVars, ensureVars, cacheVars, mainVars>>

NextSerialize == CallSerialize

SpecSerialize == InitSerialize /\ [][NextSerialize]_vars

-----------------------------------------------------------------------------
(* FilterOverlapping applied to a forest of candidates and an exclusion list *)

MaxThreads == 3

MaxExclude == 2

LineLocation == Ptr(CommentLocation("C1", "f", Ptr(CommentRange(1))))

FileLocation == Ptr(CommentLocation("C1", "f", Nil))

OriginalDescription == <<"a", LF, "b">>

originalComment == Comment(<<"0", "5">>, <<"u">>, <<>>, LineLocation, OriginalDescription, Nil)

quotedComment ==
  Comment(<<"5", "6">>, <<"v">>, <<>>, LineLocation, QuoteDescription(originalComment), Nil)

replyComment ==
  Comment(<<"5", "6">>, <<"v">>, <<>>, LineLocation,
          <<"'">> \o OriginalDescription \o <<"'", ":", "c">>, Nil)

FilterPool ==
  << originalComment, quotedComment, replyComment,
     Comment(<<"5", "6">>, <<"v">>, <<>>, FileLocation,
             ReplaceNewlines(QuoteDescription(originalComment)), Nil),
     Comment(<<"5">>, <<"u">>, <<>>, Nil, OriginalDescription, Ptr(TRUE)),
     Comment(<<"0", "5">>, <<"v">>, <<>>, Nil, OriginalDescription, Ptr(TRUE)) >>

RECURSIVE Ascending(_)
Ascending(S) ==
  IF S = {} THEN <<>>
  ELSE LET m == CHOOSE x \in S : \A y \in S : x <= y
       IN  <<m>> \o Ascending(S \ {m})

(* the threads whose parent is node root, among the nodes from index i on *)
RECURSIVE BuildThreads(_, _, _, _)
BuildThreads(nodes, parentOf, root, i) ==
  IF i > Len(nodes) THEN <<>>
  ELSE (IF parentOf[i] = root
          THEN <<[Hash |-> Hash(nodes[i]), Comment |-> nodes[i],
                  Children |-> BuildThreads(nodes, parentOf, i, i + 1)]>>
          ELSE <<>>)
       \o BuildThreads(nodes, parentOf, root, i + 1)

Forests ==
  UNION { LET idx == Ascending(S)
              nodes == [i \in 1..Len(idx) |-> FilterPool[idx[i]]]
          IN  {BuildThreads(nodes, parentOf, 0, 1) :
                 parentOf \in {f \in [1..Len(idx) -> 0..(Len(idx) - 1)] : \A i \in 1..Len(idx) : f[i] < i}}
        : S \in {T \in SUBSET (1..Len(FilterPool)) : Cardinality(T) \in 1..MaxThreads} }

ExcludeLists ==
  UNION {[1..n -> {FilterPool[i] : i \in 1..Len(FilterPool)}] : n \in 0..MaxExclude}

(* the orders in which Go may iterate the keys of a map *)
IterationOrders(keys) ==
  {o \in [1..Cardinality(keys) -> keys] : \A i, j \in 1..Cardinality(keys) : o[i] = o[j] => i = j}

InitFilter ==
  /\ pc = "init"
  /\ threads \in Forests
  /\ exclude \in ExcludeLists
  /\ filtered = <<>>
  /\ CommentIdle
  /\ LoadIdle
  /\ MirrorIdle
  /\ EnsureIdle
  /\ MainIdle
  /\ CacheIdle

(* mirrorCommentsIntoReview: comments.FilterOverlapping(existingComments) *)
CallCommentMapFilter ==
  /\ pc = "init"
  /\ LET commentMap == AddThreads(EmptyNote, threads)
     IN  \E order \in IterationOrders(DOMAIN commentMap) :
           filtered' = CommentMapFilterOverlapping(commentMap, order, exclude)
  /\ pc' = "map"
  /\ UNCHANGED <<commentVars, threads, exclude, loadVars, mirrorVars, ensureVars, cacheVars, mainVars>>

CallFlattenedFilter ==
  /\ pc = "init"
  /\ \E order \in IterationOrders(DOMAIN AddThreads(EmptyNote, threads)) :
       filtered' = FilterOverlappingFlattened(threads, order, exclude)
  /\ pc' = "flattened"
  /\ UNCHANGED <<commentVars, threads, exclude, loadVars, mirrorVars, ensureVars, cacheVars, mainVars>>

CallThreadFilter ==
  /\ pc = "init"
  /\ filtered' = FilterOverlapping(threads, exclude)
  /\ pc' = "threads"
  /\ UNCHANGED <<commentVars, threads, exclude, loadVars, mirrorVars, ensureVars, cacheVars, mainVars>>

NextFilter == CallCommentMapFilter \/ CallFlattenedFilter \/ CallThreadFilter

SpecFilter == InitFilter /\ [][NextFilter]_vars

-----------------------------------------------------------------------------
(* LoadComments run transaction by transaction over a log *)

MaxLog == 5

NoPayload == TransactionComment("", "", "", 0, Nil, <<>>)

ActionTemplate(authorPHID, action) ==
  [AuthorPHID |-> authorPHID, Type |-> "differential:action", NewValue |-> Ptr(action),
   HasComment |-> FALSE, Payload |-> NoPayload]

TransactionTemplates ==
  { ActionTemplate("u1", "accept"), ActionTemplate("u1", "reject"),
    ActionTemplate("u2", "reject"),
    [AuthorPHID |-> "u1", Type |-> "core:comment", NewValue |-> Nil,
     HasComment |-> TRUE, Payload |-> NoPayload],
    [AuthorPHID |-> "u2", Type |-> "core:comment", NewValue |-> Nil,
     HasComment |-> TRUE, Payload |-> TransactionComment("", "", "", 0, Nil, <<"h", "i">>)],
    [AuthorPHID |-> "u1", Type |-> "core:comment", NewValue |-> Nil,
     HasComment |-> TRUE,
     Payload |-> TransactionComment("", "", "", 0, Ptr(<<"XCMT", 1>>), <<"r", "e">>)],
    [AuthorPHID |-> "u2", Type |-> "differential:inline", NewValue |-> Nil,
     HasComment |-> TRUE,
     Payload |-> TransactionComment("", "r1", "f", 3, Nil, <<>>)] }

(* the i-th row of the query, which is ordered by id: transaction and      *)
(* comment PHIDs are distinct and the creation times ascend                *)
TransactionAt(tpl, i) ==
  Transaction(<<"XACT", i>>, tpl.AuthorPHID, i, tpl.Type, tpl.NewValue,
              IF tpl.HasComment THEN Ptr(<<"XCMT", i>>) ELSE Nil,
              [tpl.Payload EXCEPT !.PHID = <<"XCMT", i>>])

(* a reply refers to the comment of a transaction earlier in the log *)
RepliesToEarlier(transactions) ==
  \A i \in 1..Len(transactions) :
    transactions[i].Payload.ReplyToCommentPHID # Nil =>
      \E j \in 1..(i - 1) :
        transactions[j].CommentPHID = transactions[i].Payload.ReplyToCommentPHID

Logs ==
  UNION { {l \in {[i \in 1..n |-> TransactionAt(tpls[i], i)] :
                   tpls \in [1..n -> TransactionTemplates]} : RepliesToEarlier(l)}
          : n \in 0..MaxLog }

InitLoad ==
  /\ pc = "loading"
  /\ log \in Logs
  /\ pos = 1
  /\ comments = InitialLoadState.comments
  /\ commentsByPHID = InitialLoadState.commentsByPHID
  /\ rejectionCommentsByUser = InitialLoadState.rejectionCommentsByUser
  /\ emittedAt = InitialLoadState.emittedAt
  /\ CommentIdle
  /\ FilterIdle
  /\ MirrorIdle
  /\ EnsureIdle
  /\ MainIdle
  /\ CacheIdle

(* one iteration of the loop of LoadComments *)
ProcessTransaction ==
  /\ pc = "loading"
  /\ pos <= Len(log)
  /\ LET st == LoadStep(LoadState(comments, commentsByPHID, rejectionCommentsByUser,
                                  emittedAt, FALSE), log[pos])
     IN  /\ comments' = st.comments
         /\ commentsByPHID' = st.commentsByPHID
         /\ rejectionCommentsByUser' = st.rejectionCommentsByUser
         /\ emittedAt' = st.emittedAt
         /\ pc' = IF st.crashed THEN "crashed" ELSE "loading"
  /\ pos' = pos + 1
  /\ UNCHANGED <<log, commentVars, filterVars, mirrorVars, ensureVars, cacheVars, mainVars>>

(* the loop ends and LoadComments returns comments *)
ReturnComments ==
  /\ pc = "loading"
  /\ pos > Len(log)
  /\ pc' = "loaded"
  /\ UNCHANGED <<commentVars, filterVars, loadVars, mirrorVars, ensureVars, cacheVars, mainVars>>

NextLoad == ProcessTransaction \/ ReturnComments

SpecLoad == InitLoad /\ [][NextLoad]_vars

(* LoadComments over logs whose reply-to references and actors need not    *)
(* resolve: a reply may name a later comment, the comment of a dropped     *)
(* transaction or a comment that is not in the log, and the service may    *)
(* know no user for an actor                                               *)
MaxAnyLog == 3

CommentTemplate(authorPHID, replyTo, content) ==
  [AuthorPHID |-> authorPHID, Type |-> "core:comment", NewValue |-> Nil, HasComment |-> TRUE,
   Payload |-> TransactionComment("", "", "", 0, replyTo, content)]

AnyTemplates ==
  { CommentTemplate("u1", Nil, <<"h", "i">>),
    CommentTemplate("u1", Nil, <<>>),
    CommentTemplate("u2", Ptr(<<"XCMT", 1>>), <<"r", "e">>),
    CommentTemplate("u1", Ptr(<<"XCMT", 3>>), <<"r", "e">>),
    CommentTemplate("u2", Ptr(<<"XCMT", 9>>), <<>>),
    CommentTemplate("u3", Nil, <<"h", "i">>) }

AnyLogs ==
  UNION { {[i \in 1..n |-> TransactionAt(tpls[i], i)] : tpls \in [1..n -> AnyTemplates]}
          : n \in 0..MaxAnyLog }

InitLoadAny ==
  /\ pc = "loading"
  /\ log \in AnyLogs
  /\ pos = 1
  /\ comments = InitialLoadState.comments
  /\ commentsByPHID = InitialLoadState.commentsByPHID
  /\ rejectionCommentsByUser = InitialLoadState.rejectionCommentsByUser
  /\ emittedAt = InitialLoadState.emittedAt
  /\ CommentIdle
  /\ FilterIdle
  /\ MirrorIdle
  /\ EnsureIdle
  /\ MainIdle
  /\ CacheIdle

SpecLoadAny == InitLoadAny /\ [][NextLoad]_vars

-----------------------------------------------------------------------------
(* The controller run over a repository and a review service *)

MaxPasses == 2

MaxReviewLog == 2

Repos == {"A"}

CommitTimes == ("r1" :> <<"1">>) @@ ("r2" :> <<"2">>)

Request(reviewRef, targetRef, description) ==
  [reviewRef |-> reviewRef, targetRef |-> targetRef, description |-> description]

testReviewNote == Request("refs/heads/feature", "refs/heads/master", "Test Code Review")

RequestNoteChoices ==
  {EmptyNote, "r1" :> <<testReviewNote>>, "r2" :> <<testReviewNote, InvalidNote>>}

CommentNoteChoices ==
  {EmptyNote,
   "r1" :> <<Write(Comment(<<"7">>, <<"l">>, <<>>, Nil, <<"h", "i">>, Nil)), InvalidNote>>}

RepoStates ==
  {[commits |-> CommitTimes, requests |-> rq, comments |-> cm, tracked |-> EmptyNote] :
     rq \in RequestNoteChoices, cm \in CommentNoteChoices}

ReviewHashChoices ==
  {<<>>, <<<<"gtcm", "r1">>>>, <<<<"gttr", "t1">>, <<"gtcm", "r2">>, <<"gtcm", "rx">>>>}

(* the open reviews of the service: D1 alone, or a second review before it *)
secondReview == [ID |-> "D2", Hashes |-> <<<<"gtcm", "r2">>>>]

secondReviewLog ==
  <<TransactionAt([AuthorPHID |-> "u2", Type |-> "core:comment", NewValue |-> Nil,
                   HasComment |-> TRUE,
                   Payload |-> TransactionComment("", "", "", 0, Nil, <<"h", "i">>)], 1),
    TransactionAt(ActionTemplate("u1", "reject"), 2)>>

RemoteReviewChoices ==
  {<<[ID |-> "D1", Hashes |-> hashes]>> : hashes \in ReviewHashChoices}
  \cup {<<secondReview, [ID |-> "D1", Hashes |-> <<<<"gtcm", "r1">>>>]>>}

(* the transactions that reviewers add to the reviews *)
ReviewTransactionTemplates ==
  { ActionTemplate("u1", "accept"), ActionTemplate("u1", "reject"),
    [AuthorPHID |-> "u2", Type |-> "core:comment", NewValue |-> Nil,
     HasComment |-> TRUE, Payload |-> TransactionComment("", "", "", 0, Nil, <<"h", "i">>)] }

InitialReviewLogs ==
  {<<>>} \cup {<<TransactionAt(tpl, 1)>> : tpl \in ReviewTransactionTemplates}

(* what is remembered of the latest pass: its arguments and results and   *)
(* the state it started from                                               *)
PassRecord(repo, pulled, remoteAfter, syncToRemote, pullFailed, aborted, pushFailed, crashed) ==
  [repo |-> repo, pulled |-> pulled, remoteAfter |-> remoteAfter,
   syncToRemote |-> syncToRemote, pullFailed |-> pullFailed, aborted |-> aborted,
   pushFailed |-> pushFailed, crashed |-> crashed,
   inSuccession |-> repo \in settled,
   afterAbort |-> lastPass.aborted,
   before |-> [processedStates |-> processedStates, existingComments |-> existingComments,
               openReviews |-> openReviews, repoState |-> repoState,
               remoteNotes |-> remoteNotes, transactionLogs |-> transactionLogs]]

(* before the first pass *)
NoPass ==
  [repo |-> "", pulled |-> EmptyNote, remoteAfter |-> EmptyNote,
   syncToRemote |-> FALSE, pullFailed |-> FALSE, aborted |-> FALSE,
   pushFailed |-> FALSE,
   crashed |-> FALSE, inSuccession |-> FALSE, afterAbort |-> FALSE,
   before |-> [processedStates |-> EmptyNote, existingComments |-> EmptyNote,
               openReviews |-> EmptyNote, repoState |-> EmptyNote,
               remoteNotes |-> EmptyNote, transactionLogs |-> EmptyNote]]

InitMirror ==
  /\ pc = "idle"
  /\ processedStates = EmptyNote
  /\ existingComments = EmptyNote
  /\ openReviews = EmptyNote
  /\ repoState \in [Repos -> RepoStates]
  /\ remoteNotes = [repo \in Repos |-> repoState[repo].comments]
  /\ remoteReviews \in RemoteReviewChoices
  /\ \E l \in InitialReviewLogs : transactionLogs = ("D1" :> l) @@ ("D2" :> secondReviewLog)
  /\ calls = <<>>
  /\ lastPass = NoPass
  /\ settled = {}
  /\ passes = 0
  /\ CommentIdle
  /\ FilterIdle
  /\ LoadIdle
  /\ EnsureIdle
  /\ MainIdle
  /\ CacheIdle

(* what syncToRemote makes of the results of the pull and of the push *)
PushFailures == {"", "fetch", "push"}

(* mirror.Repo: one whole pass of mirrorRepoToReview over a repository;    *)
(* pullErr and pushErr are the results of PullUpdates and PushUpdates      *)
MirrorRepo(repo, syncToRemote, pullErr, pushErr) ==
  /\ pc = "idle"
  /\ passes < MaxPasses
  /\ passes' = passes + 1
  /\ IF PullAborts(syncToRemote, pullErr)
       THEN /\ calls' = <<Call("PullUpdates", <<repo>>)>>
            /\ lastPass' = PassRecord(repo, repoState[repo], remoteNotes[repo], syncToRemote,
                                      syncToRemote /\ pullErr, TRUE, FALSE, FALSE)
            /\ UNCHANGED <<pc, processedStates, existingComments, openReviews, repoState,
                           remoteNotes, settled>>
       ELSE \E rs \in {IF syncToRemote THEN PullUpdates(repoState[repo], remoteNotes[repo])
                        ELSE repoState[repo]} :
            \E r \in {MirrorAfterPull(repo, rs, remoteNotes[repo], syncToRemote, pushErr,
                          IF syncToRemote THEN <<Call("PullUpdates", <<repo>>)>> ELSE <<>>)} :
              /\ processedStates' = r.processedStates
              /\ existingComments' = r.existingComments
              /\ openReviews' = r.openReviews
              /\ repoState' = [repoState EXCEPT ![repo] = r.repo]
              /\ remoteNotes' = [remoteNotes EXCEPT ![repo] = r.remote]
              /\ calls' = r.calls
              /\ lastPass' = PassRecord(repo, rs, r.remote, syncToRemote, syncToRemote /\ pullErr,
                                        FALSE,
                                        syncToRemote /\ pushErr # "" /\ ~r.crashed, r.crashed)
              /\ settled' = IF r.crashed THEN {} ELSE settled \cup {repo}
              /\ pc' = IF r.crashed THEN "crashed" ELSE "idle"
  /\ UNCHANGED <<remoteReviews, transactionLogs, commentVars, filterVars, loadVars, ensureVars, cacheVars, mainVars>>

(* the review service records one more transaction on a review *)
RemoteTransaction ==
  /\ pc = "idle"
  /\ \E i \in 1..Len(remoteReviews), tpl \in ReviewTransactionTemplates :
       LET id == remoteReviews[i].ID IN
       /\ Len(transactionLogs[id]) < MaxReviewLog
       /\ transactionLogs' =
            [transactionLogs EXCEPT ![id] = @ \o <<TransactionAt(tpl, Len(@) + 1)>>]
  /\ settled' = {}
  /\ UNCHANGED <<pc, processedStates, existingComments, openReviews, repoState, remoteNotes,
                 remoteReviews, calls, lastPass, passes, commentVars, filterVars, loadVars, ensureVars, cacheVars, mainVars>>

MaxForeignNotes == 1

(* a note that another writer of the remote adds to a commit *)
foreignNote == Write(Comment(<<"8">>, <<"f">>, <<>>, Nil, <<"x">>, Nil))

(* another writer pushes a comment note to the remote *)
ForeignPush ==
  /\ pc = "idle"
  /\ \E repo \in Repos :
       /\ Cardinality({i \in 1..Len(MapGet(remoteNotes[repo], "r1", <<>>)) :
                         remoteNotes[repo]["r1"][i] = foreignNote}) < MaxForeignNotes
       /\ remoteNotes' =
            [remoteNotes EXCEPT ![repo] =
               ("r1" :> (MapGet(@, "r1", <<>>) \o <<foreignNote>>)) @@ @]
  /\ settled' = {}
  /\ UNCHANGED <<pc, processedStates, existingComments, openReviews, repoState,
                 remoteReviews, transactionLogs, calls, lastPass, passes,
                 commentVars, filterVars, loadVars, ensureVars, cacheVars, mainVars>>

NextMirror ==
  \/ \E repo \in Repos, syncToRemote, pullErr \in BOOLEAN, pushErr \in PushFailures :
       MirrorRepo(repo, syncToRemote, pullErr, pushErr)
  \/ RemoteTransaction
  \/ ForeignPush

SpecMirror == InitMirror /\ [][NextMirror]_vars

(* mirror.Repo over two repositories, which are clones with their own      *)
(* notes and may hold the same commits; no remote sync                     *)
TwoRepos == {"A", "B"}

InitTwoRepos ==
  /\ pc = "idle"
  /\ processedStates = EmptyNote
  /\ existingComments = EmptyNote
  /\ openReviews = EmptyNote
  /\ repoState \in [TwoRepos -> RepoStates]
  /\ remoteNotes = [repo \in TwoRepos |-> repoState[repo].comments]
  /\ remoteReviews \in RemoteReviewChoices
  /\ \E l \in InitialReviewLogs : transactionLogs = ("D1" :> l) @@ ("D2" :> secondReviewLog)
  /\ calls = <<>>
  /\ lastPass = NoPass
  /\ settled = {}
  /\ passes = 0
  /\ CommentIdle
  /\ FilterIdle
  /\ LoadIdle
  /\ EnsureIdle
  /\ MainIdle
  /\ CacheIdle

NextTwoRepos == \E repo \in TwoRepos : MirrorRepo(repo, FALSE, FALSE, "")

SpecTwoRepos == InitTwoRepos /\ [][NextTwoRepos]_vars

-----------------------------------------------------------------------------
(* Arcanist.EnsureRequestExists against the Differential service *)

commitHashType == "gtcm"

differentialNeedsReviewStatus == "0"

differentialClosedStatus == "3"

differentialAbandonedStatus == "4"

(* "refs/heads/" *)
refsHeads == <<"r", "e", "f", "s", "/", "h", "e", "a", "d", "s", "/">>

HasPrefix(str, prefix) == Len(prefix) <= Len(str) /\ SubSeq(str, 1, Len(prefix)) = prefix

abbreviateRefName(ref) ==
  IF HasPrefix(ref, refsHeads) THEN SubSeq(ref, Len(refsHeads) + 1, Len(ref)) ELSE ref

differentialReview(id, branch, status, hashes) ==
  [ID |-> id, Branch |-> branch, Status |-> status, Hashes |-> hashes]

isClosed(review) ==
  review.Status = differentialClosedStatus \/ review.Status = differentialAbandonedStatus

(* Conduit differential.query: the reviews that hold one of the commit     *)
(* hashes and match the status; a request without status matches any      *)
DifferentialQuery(service, commitHashes, status) ==
  SelectSeq(service, LAMBDA review :
    /\ \E i \in 1..Len(commitHashes), j \in 1..Len(review.Hashes) :
         commitHashes[i] = review.Hashes[j]
    /\ status = "status-open" => ~isClosed(review))

(* the query that asks for the open reviews only *)
listDifferentialReviewsOpenOnly(service, reviewRef, revision) ==
  SelectSeq(DifferentialQuery(service, <<<<commitHashType, revision>>>>, "status-open"),
            LAMBDA review :
              review.Branch = reviewRef \/ review.Branch = abbreviateRefName(reviewRef))

listDifferentialReviewsOrDie(service, reviewRef, revision) ==
  SelectSeq(DifferentialQuery(service, <<<<commitHashType, revision>>>>, ""),
            LAMBDA review :
              review.Branch = reviewRef \/ review.Branch = abbreviateRefName(reviewRef))

(* the service after differential.close of the review *)
ClosedOnService(service, id) ==
  [i \in 1..Len(service) |->
     IF service[i].ID = id THEN [service[i] EXCEPT !.Status = differentialClosedStatus]
     ELSE service[i]]

(* the service after differential.updaterevision with a diff of the commit *)
UpdatedOnService(service, id, commit) ==
  [i \in 1..Len(service) |->
     IF service[i].ID = id
       THEN [service[i] EXCEPT !.Hashes = @ \o <<<<commitHashType, commit>>>>]
     ELSE service[i]]

(* what one step of EnsureRequestExists leaves: the service, the Conduit   *)
(* calls so far, the revisions created, and whether log.Fatal ended it     *)
EnsureState(service, conduit, created, fatal) ==
  [service |-> service, conduit |-> conduit, created |-> created, fatal |-> fatal]

(* review.close(): differential.close, whose error is only logged *)
close(st, review, closeErr) ==
  EnsureState(
    IF closeErr THEN st.service
    ELSE ClosedOnService(st.service, review.ID),
    st.conduit \o <<Call("differential.close", <<review.ID>>)>>, st.created, st.fatal)

(* the loop without the test of isClosed *)
RECURSIVE CloseEvery(_, _, _)
CloseEvery(st, reviews, closeErr) ==
  IF reviews = <<>> THEN st
  ELSE The({CloseEvery(next, Tail(reviews), closeErr) :
              next \in {close(st, Head(reviews), closeErr)}})

(* EnsureRequestExists, merged change: for _, review := range              *)
(* existingReviews, close unless isClosed                                  *)
RECURSIVE CloseOpen(_, _, _)
CloseOpen(st, reviews, closeErr) ==
  IF reviews = <<>> THEN st
  ELSE The({CloseOpen(next, Tail(reviews), closeErr) :
              next \in {IF isClosed(Head(reviews)) THEN st
                        ELSE close(st, Head(reviews), closeErr)}})

hasHash(review, commit) ==
  \E i \in 1..Len(review.Hashes) :
    /\ Len(review.Hashes[i]) = 2
    /\ review.Hashes[i][1] = commitHashType
    /\ review.Hashes[i][2] = commit

(* updateReviewDiffs without the search for the head commit among the      *)
(* hashes of the review                                                    *)
updateReviewDiffsAlways(st, review, headCommit, headMergeBaseErr, diffErr, updateErr) ==
  IF st.fatal \/ isClosed(review) \/ headMergeBaseErr THEN st
  ELSE IF diffErr
    THEN EnsureState(st.service,
                     st.conduit \o <<Call("differential.creatediff", <<headCommit>>)>>,
                     st.created, TRUE)
  ELSE IF updateErr
    THEN EnsureState(st.service,
                     st.conduit \o <<Call("differential.creatediff", <<headCommit>>),
                                     Call("differential.updaterevision", <<review.ID>>)>>,
                     st.created, TRUE)
  ELSE EnsureState(
         UpdatedOnService(st.service, review.ID, headCommit),
         st.conduit \o <<Call("differential.creatediff", <<headCommit>>),
                         Call("differential.updaterevision", <<review.ID>>)>>,
         st.created, FALSE)

(* updateReviewDiffs: a closed review and a head without merge base are    *)
(* left alone; a review that has the head commit gets the comments; any    *)
(* other gets a new diff for the head, and the service adds its commit     *)
updateReviewDiffs(st, review, headCommit, headMergeBaseErr, diffErr, updateErr) ==
  IF st.fatal \/ isClosed(review) \/ headMergeBaseErr THEN st
  ELSE IF hasHash(review, headCommit)
    THEN EnsureState(st.service,
                     st.conduit \o <<Call("mirrorCommentsIntoReview", <<review.ID>>)>>,
                     st.created, FALSE)
  ELSE IF diffErr
    THEN EnsureState(st.service,
                     st.conduit \o <<Call("differential.creatediff", <<headCommit>>)>>,
                     st.created, TRUE)
  ELSE IF updateErr
    THEN EnsureState(st.service,
                     st.conduit \o <<Call("differential.creatediff", <<headCommit>>),
                                     Call("differential.updaterevision", <<review.ID>>)>>,
                     st.created, TRUE)
  ELSE EnsureState(
         UpdatedOnService(st.service, review.ID, headCommit),
         st.conduit \o <<Call("differential.creatediff", <<headCommit>>),
                         Call("differential.updaterevision", <<review.ID>>)>>,
         st.created, FALSE)

RECURSIVE UpdateAll(_, _, _, _, _, _)
UpdateAll(st, reviews, headCommit, headMergeBaseErr, diffErr, updateErr) ==
  IF reviews = <<>> THEN st
  ELSE The({UpdateAll(next, Tail(reviews), headCommit, headMergeBaseErr, diffErr, updateErr) :
              next \in {updateReviewDiffs(st, Head(reviews), headCommit,
                                          headMergeBaseErr, diffErr, updateErr)}})

(* createDifferentialDiff with the abbreviated review ref as branch and    *)
(* the revision among local:commits, then createDifferentialRevision: the  *)
(* service holds a new review in need of review with that branch and       *)
(* commit                                                                  *)
CreateRevision(st, revision, req) ==
  EnsureState(
    st.service \o
      <<differentialReview(Len(st.service) + 1, abbreviateRefName(req.reviewRef),
                           differentialNeedsReviewStatus,
                           <<<<commitHashType, revision>>>>)>>,
    st.conduit \o <<Call("differential.creatediff", <<revision>>),
                    Call("differential.createrevision", <<revision>>)>>,
    st.created + 1, FALSE)

(* EnsureRequestExists that closes the open reviews of a deleted review    *)
(* ref                                                                     *)
EnsureRequestExistsAbandoning(service, revision, req, mergeBase, headDetails, headMergeBaseErr, diffErr, updateErr, closeErr) ==
  IF mergeBase = Nil THEN EnsureState(service, <<>>, 0, FALSE)
  ELSE The({
    IF Deref(mergeBase) = revision THEN CloseOpen(st, existingReviews, closeErr)
    ELSE IF headDetails = Nil THEN CloseOpen(st, existingReviews, closeErr)
    ELSE IF Len(existingReviews) > 0
      THEN UpdateAll(st, existingReviews, Deref(headDetails), headMergeBaseErr, diffErr, updateErr)
    ELSE IF diffErr
      THEN EnsureState(service,
                       st.conduit \o <<Call("differential.creatediff", <<revision>>)>>,
                       0, TRUE)
    ELSE The({
      UpdateAll(
        [made EXCEPT !.conduit = @ \o <<Call("differential.query", <<revision>>)>>],
        listDifferentialReviewsOrDie(made.service, req.reviewRef, revision),
        Deref(headDetails), headMergeBaseErr, diffErr, updateErr) :
      made \in {CreateRevision(st, revision, req)}})
    : st \in {EnsureState(service, <<Call("differential.query", <<revision>>)>>, 0, FALSE)},
      existingReviews \in {listDifferentialReviewsOrDie(service, req.reviewRef, revision)}})

(* EnsureRequestExists; mergeBase and headDetails are what GetMergeBase    *)
(* and GetDetails(req.ReviewRef) return (Nil for an error)                 *)
EnsureRequestExists(service, revision, req, mergeBase, headDetails, headMergeBaseErr, diffErr, updateErr, closeErr) ==
  IF mergeBase = Nil THEN EnsureState(service, <<>>, 0, FALSE)
  ELSE The({
    IF Deref(mergeBase) = revision THEN CloseOpen(st, existingReviews, closeErr)
    ELSE IF headDetails = Nil THEN st
    ELSE IF Len(existingReviews) > 0
      THEN UpdateAll(st, existingReviews, Deref(headDetails), headMergeBaseErr, diffErr, updateErr)
    ELSE IF diffErr
      THEN EnsureState(service,
                       st.conduit \o <<Call("differential.creatediff", <<revision>>)>>,
                       0, TRUE)
    ELSE The({
      UpdateAll(
        [made EXCEPT !.conduit = @ \o <<Call("differential.query", <<revision>>)>>],
        listDifferentialReviewsOrDie(made.service, req.reviewRef, revision),
        Deref(headDetails), headMergeBaseErr, diffErr, updateErr) :
      made \in {CreateRevision(st, revision, req)}})
    : st \in {EnsureState(service, <<Call("differential.query", <<revision>>)>>, 0, FALSE)},
      existingReviews \in {listDifferentialReviewsOrDie(service, req.reviewRef, revision)}})

MaxEnsureCalls == 3

ensuredRevision == "r1"

ReviewRefs == {refsHeads \o <<"t">>, <<"t">>}

(* what the service may hold before the first call: nothing, a review of   *)
(* the revision on the request's branch in one of the three statuses, a    *)
(* review of the revision on another branch, a review of another commit    *)
ServiceChoices ==
  {<<>>}
  \cup {<<differentialReview(1, <<"t">>, status, <<<<commitHashType, ensuredRevision>>>>)>> :
          status \in {differentialNeedsReviewStatus, differentialClosedStatus,
                      differentialAbandonedStatus}}
  \cup {<<differentialReview(1, <<"o">>, differentialNeedsReviewStatus,
                             <<<<commitHashType, ensuredRevision>>>>)>>,
        <<differentialReview(1, <<"t">>, differentialNeedsReviewStatus,
                             <<<<commitHashType, "r0">>, <<"gttr", ensuredRevision>>>>)>>}

InitEnsure ==
  /\ pc = "idle"
  /\ \E ref \in ReviewRefs :
       ensuredRequest = Request(ref, refsHeads \o <<"m">>, "Test Code Review")
  /\ reviewsOnService \in ServiceChoices
  /\ conduitCalls = <<>>
  /\ serviceBefore = <<>>
  /\ revisionsCreated = 0
  /\ ensureCalls = 0
  /\ diffsCreated = <<>>
  /\ CommentIdle
  /\ FilterIdle
  /\ LoadIdle
  /\ MirrorIdle
  /\ CacheIdle
  /\ MainIdle

(* the diffs that updateReviewDiffs made in a call: the differential.       *)
(* creatediff calls that were answered with a diff, each followed by the   *)
(* differential.updaterevision of its review                               *)
DiffsMade(conduit) ==
  LET made == {i \in 1..(Len(conduit) - 1) :
                 /\ conduit[i].op = "differential.creatediff"
                 /\ conduit[i + 1].op = "differential.updaterevision"}
  IN  [k \in 1..Cardinality(made) |->
         LET i == CHOOSE i \in made : Cardinality({j \in made : j <= i}) = k
         IN  <<conduit[i + 1].args[1], conduit[i].args[1]>>]

(* one call of EnsureRequestExists for the request and its revision *)
CallEnsureRequestExists(mergeBase, headDetails, headMergeBaseErr, diffErr, updateErr, closeErr) ==
  /\ pc = "idle"
  /\ ensureCalls < MaxEnsureCalls
  /\ ensureCalls' = ensureCalls + 1
  /\ \E r \in {EnsureRequestExists(reviewsOnService, ensuredRevision, ensuredRequest,
                                   mergeBase, headDetails, headMergeBaseErr, diffErr,
                                   updateErr, closeErr)} :
       /\ reviewsOnService' = r.service
       /\ conduitCalls' = r.conduit
       /\ revisionsCreated' = revisionsCreated + r.created
       /\ diffsCreated' = diffsCreated \o DiffsMade(r.conduit)
       /\ pc' = IF r.fatal THEN "crashed" ELSE "idle"
  /\ serviceBefore' = reviewsOnService
  /\ UNCHANGED <<ensuredRequest, commentVars, filterVars, loadVars, mirrorVars, cacheVars, mainVars>>

(* the supervisor starts the process again after log.Fatal *)
Restart ==
  /\ pc = "crashed"
  /\ pc' = "idle"
  /\ UNCHANGED <<commentVars, filterVars, loadVars, mirrorVars, ensureVars, cacheVars, mainVars>>

(* a user of the service closes, abandons or reopens a review *)
StatusChange ==
  /\ pc = "idle"
  /\ \E i \in 1..Len(reviewsOnService),
        status \in {differentialNeedsReviewStatus, differentialClosedStatus,
                    differentialAbandonedStatus} :
       /\ reviewsOnService[i].Status # status
       /\ reviewsOnService' = [reviewsOnService EXCEPT ![i].Status = status]
  /\ UNCHANGED <<pc, ensuredRequest, conduitCalls, serviceBefore, revisionsCreated,
                 ensureCalls, diffsCreated, commentVars, filterVars, loadVars, mirrorVars, cacheVars, mainVars>>

NextEnsure ==
  \/ \E mergeBase \in {Nil, Ptr(ensuredRevision), Ptr("r0")},
        headDetails \in {Nil, Ptr(ensuredRevision), Ptr("r2")},
        headMergeBaseErr, diffErr, updateErr, closeErr \in BOOLEAN :
       CallEnsureRequestExists(mergeBase, headDetails, headMergeBaseErr, diffErr, updateErr, closeErr)
  \/ Restart
  \/ StatusChange

SpecEnsure == InitEnsure /\ [][NextEnsure]_vars

-----------------------------------------------------------------------------
(* mirrorCommentsIntoReview: the comments of the repository that the       *)
(* review lacks are sent to the service                                    *)

createInlineRequest(revisionID, diffID, filePath, lineNumber, content) ==
  [RevisionID |-> revisionID, DiffID |-> diffID, FilePath |-> filePath,
   LineNumber |-> lineNumber, IsNewFile |-> 1, Content |-> content]

createCommentRequest(revisionID) ==
  [RevisionID |-> revisionID, Action |-> "comment", AttachInlines |-> TRUE]

(* the loop that asks for a location only *)
RECURSIVE InlineRequestsAnyPath(_, _, _)
InlineRequestsAnyPath(review, newComments, commitToDiffMap) ==
  IF newComments = <<>> THEN <<>>
  ELSE LET c == Head(newComments)
           diffID == IF c.Location # Nil
                       THEN MapGet(commitToDiffMap, Deref(c.Location).Commit, "") ELSE ""
       IN  (IF c.Location # Nil /\ diffID # ""
              THEN <<createInlineRequest(review.ID, diffID, Deref(c.Location).Path,
                       IF Deref(c.Location).Range # Nil
                         THEN Deref(Deref(c.Location).Range).StartLine ELSE 1,
                       QuoteDescription(c))>>
              ELSE <<>>)
           \o InlineRequestsAnyPath(review, Tail(newComments), commitToDiffMap)

(* buildCommentRequests, the loop over newComments *)
RECURSIVE InlineRequests(_, _, _)
InlineRequests(review, newComments, commitToDiffMap) ==
  IF newComments = <<>> THEN <<>>
  ELSE LET c == Head(newComments)
           diffID == IF c.Location # Nil
                       THEN MapGet(commitToDiffMap, Deref(c.Location).Commit, "") ELSE ""
       IN  (IF c.Location # Nil /\ Deref(c.Location).Path # "" /\ diffID # ""
              THEN <<createInlineRequest(review.ID, diffID, Deref(c.Location).Path,
                       IF Deref(c.Location).Range # Nil
                         THEN Deref(Deref(c.Location).Range).StartLine ELSE 1,
                       QuoteDescription(c))>>
              ELSE <<>>)
           \o InlineRequests(review, Tail(newComments), commitToDiffMap)

buildCommentRequests(review, newComments, commitToDiffMap) ==
  The({[inlineRequests |-> inline,
        commentRequests |-> IF Len(inline) > 0 THEN <<createCommentRequest(review.ID)>>
                            ELSE <<>>]
       : inline \in {InlineRequests(review, newComments, commitToDiffMap)}})

(* findCommitForDiff over the diffs of the service: the last commit of the *)
(* diff, "" for a diff that cannot be read                                 *)
findCommitForDiff(diffIDString) ==
  CASE diffIDString = "1" -> "ABCD"
    [] diffIDString = "2" -> "EFGH"
    [] OTHER -> ""

(* the loop over review.Diffs *)
RECURSIVE CommitToDiffMap(_)
CommitToDiffMap(diffs) ==
  IF diffs = <<>> THEN EmptyNote
  ELSE (findCommitForDiff(diffs[Len(diffs)]) :> diffs[Len(diffs)])
         @@ CommitToDiffMap(SubSeq(diffs, 1, Len(diffs) - 1))

(* the calls of a loop over requests; failing is the set of the indices    *)
(* whose response carries an error, which is logged                        *)
Conduit(method, requests, failing) ==
  [i \in 1..Len(requests) |->
     [method |-> method, request |-> requests[i], error |-> i \in failing]]

(* mirrorCommentsIntoReview: the unit results of the latest report, fatal  *)
(* on an error response; then the inline requests and the comment request, *)
(* whose error responses are logged                                        *)
mirrorCommentsIntoReview(review, commentMap, order, existing, report, unitErr, inlineErrs, commentErr) ==
  The({IF report.URL # "" /\ unitErr
         THEN [newComments |-> newComments, inlineRequests |-> <<>>, commentRequests |-> <<>>,
               conduit |-> unit, fatal |-> TRUE]
         ELSE [newComments |-> newComments, inlineRequests |-> built.inlineRequests,
               commentRequests |-> built.commentRequests,
               conduit |-> unit
                  \o Conduit("differential.createinline", built.inlineRequests, inlineErrs)
                  \o Conduit("differential.createcomment", built.commentRequests,
                             IF commentErr THEN {1} ELSE {}),
               fatal |-> FALSE]
       : newComments \in {CommentMapFilterOverlapping(commentMap, order, existing)},
         built \in {buildCommentRequests(review,
                      CommentMapFilterOverlapping(commentMap, order, existing),
                      CommitToDiffMap(review.Diffs))},
         unit \in {IF report.URL # ""
                     THEN Conduit("differential.updateunitresults",
                                  <<[DiffID |-> MapGet(CommitToDiffMap(review.Diffs),
                                       IF review.Diffs = <<>> THEN ""
                                       ELSE findCommitForDiff(review.Diffs[Len(review.Diffs)]), ""),
                                     Result |-> report.Status, Link |-> report.URL]>>,
                                  IF unitErr THEN {1} ELSE {})
                     ELSE <<>>}})

MaxPublish == 3

(* the comments of TestGenerateCommentRequests, and two that have a        *)
(* location without a path and a commit without a diff                     *)
PublishPool ==
  <<Comment(<<"5">>, <<"e">>, <<>>, Nil, <<"r">>, Nil),
    Comment(<<"5">>, <<"e">>, <<>>, Ptr(CommentLocation("ABCD", "hello.txt", Nil)), <<"f">>, Nil),
    Comment(<<"5">>, <<"e">>, <<>>,
            Ptr(CommentLocation("EFGH", "hello.txt", Ptr(CommentRange(42)))), <<"l">>, Nil),
    Comment(<<"5">>, <<"e">>, <<>>, Ptr(CommentLocation("ABCD", "", Nil)), <<"c">>, Nil),
    Comment(<<"5">>, <<"e">>, <<>>, Ptr(CommentLocation("ZZZZ", "hello.txt", Nil)), <<"z">>, Nil)>>

(* the comment lists of up to MaxPublish different comments of the pool *)
PublishLists ==
  UNION {{l \in [1..n -> 1..Len(PublishPool)] : \A i, j \in 1..n : l[i] = l[j] => i = j}
         : n \in 0..MaxPublish}

InitPublish ==
  /\ pc = "init"
  /\ \E l \in PublishLists, diffs \in {<<>>, <<"1", "2">>}, url \in {"", "http://ci"},
        existing \in {<<>>, <<PublishPool[2]>>} :
       a = [review |-> [ID |-> "testReview", Diffs |-> diffs],
            comments |-> [h \in {Hash(PublishPool[l[i]]) : i \in 1..Len(l)} |->
                            CHOOSE c \in {PublishPool[l[i]] : i \in 1..Len(l)} : Hash(c) = h],
            order |-> [i \in 1..Len(l) |-> Hash(PublishPool[l[i]])],
            existing |-> existing,
            report |-> [URL |-> url, Status |-> "pass"]]
  /\ b = <<>>
  /\ out = <<>>
  /\ FilterIdle
  /\ LoadIdle
  /\ MirrorIdle
  /\ EnsureIdle
  /\ MainIdle
  /\ CacheIdle

(* one call of mirrorCommentsIntoReview with the responses of the service *)
CallMirrorCommentsIntoReview(unitErr, inlineErrs, commentErr) ==
  /\ pc = "init"
  /\ \E r \in {mirrorCommentsIntoReview(a.review, a.comments, a.order, a.existing, a.report,
                                        unitErr, inlineErrs, commentErr)} :
       /\ out' = r
       /\ pc' = IF r.fatal THEN "crashed" ELSE "published"
  /\ UNCHANGED <<a, b, filterVars, loadVars, mirrorVars, ensureVars, cacheVars, mainVars>>

NextPublish ==
  \E unitErr, commentErr \in BOOLEAN, inlineErrs \in SUBSET (1..2) :
    CallMirrorCommentsIntoReview(unitErr, inlineErrs, commentErr)

SpecPublish == InitPublish /\ [][NextPublish]_vars

-----------------------------------------------------------------------------
(* A comment of the repository is published to the review as an inline     *)
(* comment and read back from the transaction log of the review            *)

EchoReview == [ID |-> "testReview", Diffs |-> <<"1", "2">>]

(* the local comments that have a location with a path: whole-file         *)
(* comments and line comments, with and without a resolved value           *)
EchoComments ==
  {Comment(<<"5">>, au, pa, Ptr(CommentLocation(commit, "hello.txt", r)), de, re) :
     au \in Authors, pa \in Parents, commit \in {"ABCD", "EFGH"},
     r \in {Nil, Ptr(CommentRange(0)), Ptr(CommentRange(1)), Ptr(CommentRange(42))},
     de \in {<<>>, <<"l">>, <<"a", LF, "b">>}, re \in ResolvedValues}

(* the transaction and the transaction comment that the queries return for *)
(* the i-th inline comment created by the mirror: the mirror's user is the *)
(* actor, the commit is the last commit of the diff of the changeset, file *)
(* name, line number and content are those of the request                  *)
PublishedInline(request, i) ==
  Transaction(<<"XACT", i>>, "u1", i, "differential:inline", Nil, Ptr(<<"XCMT", i>>),
              TransactionComment(<<"XCMT", i>>, findCommitForDiff(request.DiffID),
                                 request.FilePath, request.LineNumber, Nil, request.Content))

InitEcho ==
  /\ pc = "init"
  /\ a \in EchoComments
  /\ b = <<>>
  /\ out = <<>>
  /\ FilterIdle
  /\ LoadIdle
  /\ MirrorIdle
  /\ EnsureIdle
  /\ MainIdle
  /\ CacheIdle

(* buildCommentRequests for the one new comment; the requests are sent *)
PublishComment ==
  /\ pc = "init"
  /\ pc' = "published"
  /\ b' = buildCommentRequests(EchoReview, <<a>>, CommitToDiffMap(EchoReview.Diffs)).inlineRequests
  /\ UNCHANGED <<a, out, filterVars, loadVars, mirrorVars, ensureVars, cacheVars, mainVars>>

(* LoadComments on the transactions of the published inline comments *)
HarvestPublished ==
  /\ pc = "published"
  /\ pc' = "harvested"
  /\ out' = LoadComments([i \in 1..Len(b) |-> PublishedInline(b[i], i)]).comments
  /\ UNCHANGED <<a, b, filterVars, loadVars, mirrorVars, ensureVars, cacheVars, mainVars>>

NextEcho == PublishComment \/ HarvestPublished

SpecEcho == InitEcho /\ [][NextEcho]_vars

-----------------------------------------------------------------------------
(* findLastCommit: the commit of a diff of the service                     *)

(* what encoding/json leaves in an interface{}: a string, a number or a    *)
(* map[string]interface{}                                                  *)
JString(s) == [kind |-> "string", val |-> s]

JNumber(n) == [kind |-> "number", val |-> n]

JMap(f) == [kind |-> "map", val |-> f]

(* v.(map[string]interface{}) and m[key].(string): the ok of the assertion *)
IsMap(v) == v.kind = "map"

HasString(m, key) == key \in DOMAIN m.val /\ m.val[key].kind = "string"

(* the first of the timestamps in ascending order *)
Earliest(timestamps) ==
  CHOOSE t \in {timestamps[i] : i \in 1..Len(timestamps)} :
    \A i \in 1..Len(timestamps) : t <= timestamps[i]

(* sort.Sort(sort.Reverse(sort.IntSlice(timestamps))); timestamps[0] *)
Latest(timestamps) ==
  CHOOSE t \in {timestamps[i] : i \in 1..Len(timestamps)} :
    \A i \in 1..Len(timestamps) : t >= timestamps[i]

(* the loop of findLastCommit over commitsMap in the iteration order of    *)
(* the map: an entry that is a map with a string "time" adds its timestamp *)
(* and takes the timestamp's place in timestampCommitMap; a time that      *)
(* strconv.Atoi rejects is fatal                                           *)
RECURSIVE LastCommitLoop(_, _, _, _)
LastCommitLoop(commitsMap, order, timestamps, timestampCommitMap) ==
  IF order = <<>>
    THEN [fatal |-> FALSE, timestamps |-> timestamps, timestampCommitMap |-> timestampCommitMap]
  ELSE LET commit == Head(order)
           commitData == commitsMap[commit]
       IN  IF IsMap(commitData) /\ HasString(commitData, "time")
             THEN IF ~ParseIntOk(commitData.val["time"].val)
                    THEN [fatal |-> TRUE, timestamps |-> timestamps,
                          timestampCommitMap |-> timestampCommitMap]
                  ELSE The({LastCommitLoop(commitsMap, Tail(order),
                                           Append(timestamps, timestamp),
                                           (timestamp :> commit) @@ timestampCommitMap)
                            : timestamp \in {ParseInt(commitData.val["time"].val)}})
           ELSE LastCommitLoop(commitsMap, Tail(order), timestamps, timestampCommitMap)

(* findLastCommit(commitsMap) *)
findLastCommit(commitsMap, order) ==
  The({IF r.fatal THEN [fatal |-> TRUE, commit |-> ""]
       ELSE IF Len(r.timestamps) = 0 THEN [fatal |-> FALSE, commit |-> ""]
       ELSE [fatal |-> FALSE, commit |-> r.timestampCommitMap[Latest(r.timestamps)]]
       : r \in {LastCommitLoop(commitsMap, order, <<>>, EmptyNote)}})

(* (diff *queryDiffItem).findLastCommit() *)
diffFindLastCommit(diff, order) ==
  IF IsMap(diff.Properties) /\ "local:commits" \in DOMAIN diff.Properties.val
       /\ IsMap(diff.Properties.val["local:commits"])
    THEN findLastCommit(diff.Properties.val["local:commits"].val, order)
  ELSE [fatal |-> FALSE, commit |-> ""]

MaxLocalCommits == 3

LocalCommitIDs == <<"ABCD", "EFGHI", "JKLM", "NOPQ">>

(* what the service may hold for one commit: the shapes of                 *)
(* TestFindLastCommit, equal and different times, a negative time and a    *)
(* time that is no number                                                  *)
CommitDataChoices ==
  {JString("ABCD"), JMap(EmptyNote), JMap("time" :> JNumber(5)),
   JMap("time" :> JString(<<"0", "5">>)), JMap("time" :> JString(<<"5">>)),
   JMap("time" :> JString(<<"7">>)), JMap("time" :> JString(<<"-", "5">>)),
   JMap("time" :> JString(<<"x">>))}

CommitsMaps ==
  UNION {[{LocalCommitIDs[i] : i \in 1..n} -> CommitDataChoices]
         : n \in {k \in 0..MaxLocalCommits : k <= Len(LocalCommitIDs)}}

Diffs ==
  {[Properties |-> JString("props")], [Properties |-> JMap(EmptyNote)],
   [Properties |-> JMap("local:commits" :> JString("A bunch of stuff"))]}
  \cup {[Properties |-> JMap("local:commits" :> JMap(m))] : m \in CommitsMaps}

InitLastCommit ==
  /\ pc = "init"
  /\ \E diff \in Diffs :
       /\ a = diff
       /\ b \in IF IsMap(diff.Properties) /\ "local:commits" \in DOMAIN diff.Properties.val
                    /\ IsMap(diff.Properties.val["local:commits"])
                  THEN IterationOrders(DOMAIN diff.Properties.val["local:commits"].val)
                ELSE {<<>>}
  /\ out = <<>>
  /\ FilterIdle
  /\ LoadIdle
  /\ MirrorIdle
  /\ EnsureIdle
  /\ MainIdle
  /\ CacheIdle

(* diff.findLastCommit() for the diff a, whose commits the map yields in   *)
(* the order b                                                             *)
CallFindLastCommit ==
  /\ pc = "init"
  /\ \E r \in {diffFindLastCommit(a, b)} :
       /\ out' = r
       /\ pc' = IF r.fatal THEN "crashed" ELSE "returned"
  /\ UNCHANGED <<a, b, filterVars, loadVars, mirrorVars, ensureVars, cacheVars, mainVars>>

NextLastCommit == CallFindLastCommit

SpecLastCommit == InitLastCommit /\ [][NextLastCommit]_vars

-----------------------------------------------------------------------------
(* GetFirstCommit over the hashes of a review and the details of a         *)
(* repository                                                              *)

MaxHashes == 3

(* hash pairs of the service: commits, a tree, a pair that lacks its       *)
(* second element and one with a third                                     *)
HashPairs ==
  {<<"gtcm", "c1">>, <<"gtcm", "c2">>, <<"gtcm", "c3">>, <<"gttr", "c1">>, <<"gtcm">>,
   <<"gtcm", "c2", "x">>}

HashLists == UNION {[1..n -> HashPairs] : n \in 0..MaxHashes}

(* the times of CommitDetails: the author time of git, with and without a  *)
(* leading zero, and the empty time of the mock repository                 *)
DetailTimes == {<<>>, <<"5">>, <<"0", "5">>, <<"7">>}

(* repositories that hold none, one or both of c1 and c2, and never c3 *)
DetailRepos == UNION {[known -> DetailTimes] : known \in SUBSET {"c1", "c2"}}

InitFirstCommit ==
  /\ pc = "init"
  /\ \E hashes \in HashLists : a = [ID |-> "D1", Hashes |-> hashes]
  /\ \E details \in DetailRepos : b = [commits |-> details]
  /\ out = <<>>
  /\ FilterIdle
  /\ LoadIdle
  /\ MirrorIdle
  /\ EnsureIdle
  /\ MainIdle
  /\ CacheIdle

(* review.GetFirstCommit(repo) for the review a and the repository b *)
CallGetFirstCommit ==
  /\ pc = "init"
  /\ out' = GetFirstCommit(a, b)
  /\ pc' = "returned"
  /\ UNCHANGED <<a, b, filterVars, loadVars, mirrorVars, ensureVars, cacheVars, mainVars>>

NextFirstCommit == CallGetFirstCommit

SpecFirstCommit == InitFirstCommit /\ [][NextFirstCommit]_vars

-----------------------------------------------------------------------------
(* user.go: the caches of the users of the service                         *)

(* minutes; added to time.Now() *)
userCacheDuration == -5

cachedUser(user, time) == [User |-> user, Time |-> time]

(* the entry is younger than, or exactly as old as, the cache duration *)
IsFreshInclusive(cachedValue, clock) == cachedValue.Time >= clock + userCacheDuration

(* cachedValue.Time.After(time.Now().Add(userCacheDuration)) *)
IsFresh(cachedValue, clock) == cachedValue.Time > clock + userCacheDuration

(* userCacheLookup that stores what the resolver returned also with an    *)
(* error                                                                   *)
userCacheLookupStoringErrors(key, cache, f, clock, later) ==
  IF key \in DOMAIN cache /\ IsFresh(cache[key], clock)
    THEN [result |-> cache[key].User, err |-> FALSE, cache |-> cache, called |-> FALSE]
  ELSE [result |-> f.user, err |-> f.err,
        cache |-> (key :> cachedUser(f.user, later)) @@ cache, called |-> TRUE]

(* userCacheLookup(key, cache, f): f is what the resolver would return,    *)
(* clock and later what time.Now() returns before and after the resolver   *)
userCacheLookup(key, cache, f, clock, later) ==
  IF key \in DOMAIN cache /\ IsFresh(cache[key], clock)
    THEN [result |-> cache[key].User, err |-> FALSE, cache |-> cache, called |-> FALSE]
  ELSE IF f.err
    THEN [result |-> f.user, err |-> TRUE, cache |-> cache, called |-> TRUE]
  ELSE [result |-> f.user, err |-> FALSE,
        cache |-> (key :> cachedUser(f.user, later)) @@ cache, called |-> TRUE]

MaxClock == 6

(* what user.query answers: an error, no user, or the user with the one or *)
(* the other primary email                                                 *)
Resolutions ==
  {[user |-> Nil, err |-> TRUE], [user |-> Nil, err |-> FALSE],
   [user |-> Ptr([PHID |-> "P1", Email |-> "a@"]), err |-> FALSE],
   [user |-> Ptr([PHID |-> "P1", Email |-> "b@"]), err |-> FALSE]}

InitUserCache ==
  /\ pc = "idle"
  /\ userQueryCache = EmptyNote
  /\ userLookupCache = EmptyNote
  /\ now = 0
  /\ lastLookup = <<>>
  /\ CommentIdle
  /\ FilterIdle
  /\ LoadIdle
  /\ MirrorIdle
  /\ EnsureIdle
  /\ MainIdle

(* time passes between two lookups *)
Tick ==
  /\ now < MaxClock
  /\ now' = now + 1
  /\ UNCHANGED <<pc, userQueryCache, userLookupCache, lastLookup, commentVars, filterVars,
                 loadVars, mirrorVars, ensureVars, mainVars>>

(* queryUser(name); the resolver takes elapsed minutes *)
QueryUser(name, f, elapsed) ==
  /\ now + elapsed <= MaxClock
  /\ \E r \in {userCacheLookup(name, userQueryCache, f, now, now + elapsed)} :
       /\ userQueryCache' = r.cache
       /\ now' = IF r.called THEN now + elapsed ELSE now
       /\ lastLookup' = [cache |-> "userQueryCache", key |-> name, at |-> now,
                         found |-> IF name \in DOMAIN userQueryCache
                                     THEN Ptr(userQueryCache[name]) ELSE Nil,
                         f |-> f, result |-> r.result, err |-> r.err, called |-> r.called]
  /\ UNCHANGED <<pc, userLookupCache, commentVars, filterVars, loadVars, mirrorVars,
                 ensureVars, mainVars>>

(* lookupUser(userPHID) *)
LookupUser(userPHID, f, elapsed) ==
  /\ now + elapsed <= MaxClock
  /\ \E r \in {userCacheLookup(userPHID, userLookupCache, f, now, now + elapsed)} :
       /\ userLookupCache' = r.cache
       /\ now' = IF r.called THEN now + elapsed ELSE now
       /\ lastLookup' = [cache |-> "userLookupCache", key |-> userPHID, at |-> now,
                         found |-> IF userPHID \in DOMAIN userLookupCache
                                     THEN Ptr(userLookupCache[userPHID]) ELSE Nil,
                         f |-> f, result |-> r.result, err |-> r.err, called |-> r.called]
  /\ UNCHANGED <<pc, userQueryCache, commentVars, filterVars, loadVars, mirrorVars,
                 ensureVars, mainVars>>

NextUserCache ==
  \/ Tick
  \/ \E name \in {"a@"}, f \in Resolutions, elapsed \in {0, 1} : QueryUser(name, f, elapsed)
  \/ \E f \in Resolutions, elapsed \in {0, 1} : LookupUser("P1", f, elapsed)

SpecUserCache == InitUserCache /\ [][NextUserCache]_vars

-----------------------------------------------------------------------------
(* main: the loop over the repositories under the search directory        *)

MaxLoops == 3

(* what findRepos returns: the git repositories under search_dir in the    *)
(* order of filepath.Walk                                                  *)
FoundRepos == {<<>>, <<"A">>, <<"B">>, <<"A", "B">>}

InitMain ==
  /\ pc = "find"
  /\ syncFlag \in BOOLEAN
  /\ repos = <<>>
  /\ repoIndex = 0
  /\ ticker = 0
  /\ mainTrace = <<>>
  /\ CommentIdle
  /\ FilterIdle
  /\ LoadIdle
  /\ MirrorIdle
  /\ EnsureIdle
  /\ CacheIdle

(* the runtime sends a tick every sync_period seconds; the channel holds   *)
(* one tick and a tick that finds it full is dropped                       *)
TickerFires ==
  /\ ticker = 0
  /\ ticker' = 1
  /\ UNCHANGED <<pc, syncFlag, repos, repoIndex, mainTrace, commentVars, filterVars, loadVars,
                 mirrorVars, ensureVars, cacheVars>>

(* repos, err := findRepos(searchDir), whose error is always nil *)
FindRepos(found) ==
  /\ pc = "find"
  /\ Cardinality({i \in 1..Len(mainTrace) : mainTrace[i] = <<"findRepos">>}) < MaxLoops
  /\ repos' = found
  /\ repoIndex' = 1
  /\ mainTrace' = Append(mainTrace, <<"findRepos">>)
  /\ pc' = "range"
  /\ UNCHANGED <<syncFlag, ticker, commentVars, filterVars, loadVars, mirrorVars, ensureVars,
                 cacheVars>>

(* mirror.Repo(repo, syncToRemote) for the next repository of the range *)
MirrorNextRepo ==
  /\ pc = "range"
  /\ repoIndex <= Len(repos)
  /\ mainTrace' = Append(mainTrace, <<"mirror.Repo", repos[repoIndex], syncFlag>>)
  /\ repoIndex' = repoIndex + 1
  /\ UNCHANGED <<pc, syncFlag, repos, ticker, commentVars, filterVars, loadVars, mirrorVars,
                 ensureVars, cacheVars>>

(* the end of the range with a receive from the ticker whatever the flag *)
EndPassAlwaysWaiting ==
  /\ pc = "range"
  /\ repoIndex > Len(repos)
  /\ pc' = "wait"
  /\ UNCHANGED <<syncFlag, repos, repoIndex, ticker, mainTrace, commentVars, filterVars,
                 loadVars, mirrorVars, ensureVars, cacheVars>>

(* the end of the range: if syncToRemote the loop goes on to the receive   *)
(* from the ticker, otherwise to the next findRepos                        *)
EndPass ==
  /\ pc = "range"
  /\ repoIndex > Len(repos)
  /\ pc' = IF syncFlag THEN "wait" ELSE "find"
  /\ UNCHANGED <<syncFlag, repos, repoIndex, ticker, mainTrace, commentVars, filterVars,
                 loadVars, mirrorVars, ensureVars, cacheVars>>

(* <-ticker *)
ReceiveTick ==
  /\ pc = "wait"
  /\ ticker = 1
  /\ ticker' = 0
  /\ mainTrace' = Append(mainTrace, <<"tick">>)
  /\ pc' = "find"
  /\ UNCHANGED <<syncFlag, repos, repoIndex, commentVars, filterVars, loadVars, mirrorVars,
                 ensureVars, cacheVars>>

NextMain ==
  \/ TickerFires
  \/ \E found \in FoundRepos : FindRepos(found)
  \/ MirrorNextRepo
  \/ EndPass
  \/ ReceiveTick

SpecMain == InitMain /\ [][NextMain]_vars

AppendCalls == SelectSeq(calls, LAMBDA c : c.op = "AppendNote")

(* C1: a pass that directly follows a completed pass over the same         *)
(* repository, with nothing changed in between but the notes that pass     *)
(* appended, calls AppendNote zero times.                                  *)
C1_IdempotentTick ==
  (lastPass.inSuccession /\ ~lastPass.aborted) => AppendCalls = <<>>

-----------------------------------------------------------------------------
(* Properties of LoadComments *)

Processed == 1..(pos - 1)

IsAccept(i) == IsAction(log[i], "accept")

IsReject(i) == IsAction(log[i], "reject")

(* the reject transactions of the actor of transaction i that precede it *)
RejectsBefore(i) ==
  Ascending({j \in 1..(i - 1) : IsReject(j) /\ log[j].AuthorPHID = log[i].AuthorPHID})

ChildrenFor(i) == IF IsAccept(i) THEN Len(RejectsBefore(i)) ELSE 0

EmittedFor(i) == ChildrenFor(i) + (IF emittedAt[i] # 0 THEN 1 ELSE 0)

RECURSIVE EmittedUpTo(_)
EmittedUpTo(i) == IF i = 0 THEN 0 ELSE EmittedUpTo(i - 1) + EmittedFor(i)

(* the log of the test: (u1,reject,1) (u1,accept,2) (u1,reject,3) (u2,reject,4) (u1,accept,5) *)
TestLog ==
  [i \in 1..5 |->
     TransactionAt(ActionTemplate(IF i = 4 THEN "u2" ELSE "u1",
                                  IF i \in {2, 5} THEN "accept" ELSE "reject"), i)]

(* C5: an accept by an actor emits exactly one child {author and timestamp *)
(* of the accept, resolved = true, parent = hash of the rejection comment} *)
(* for every earlier reject transaction of that actor, answered before or  *)
(* not, and none for the rejections of other actors; the test log yields   *)
(* exactly 8 comments.                                                     *)
C5_CumulativeAcceptChildren ==
  pc \in {"loading", "loaded"} =>
    /\ \A i \in Processed :
         IsAccept(i) =>
           LET own == emittedAt[i]
               rejects == RejectsBefore(i)
               n == Len(rejects)
           IN  /\ own > n
               /\ comments[own] =
                    Comment(FormatNat(log[i].DateCreated), comments[own].Author, <<>>, Nil, <<>>, Ptr(TRUE))
               /\ \A k \in 1..n :
                    /\ emittedAt[rejects[k]] # 0
                    /\ comments[own - n + k - 1] =
                         Comment(comments[own].Timestamp, comments[own].Author,
                                 Hash(comments[emittedAt[rejects[k]]]), Nil, <<>>, Ptr(TRUE))
    /\ Len(comments) = EmittedUpTo(pos - 1)
    /\ (pc = "loaded" /\ log = TestLog) => Len(comments) = 8

C5_Witness ==
  /\ pc = "loaded"
  /\ log = TestLog
  /\ Len(comments) = 8
  /\ comments[6].Parent = Hash(comments[1])
  /\ comments[7].Parent = Hash(comments[4])
  /\ comments[8].Parent = <<>>

(* C6: the output follows the transaction log: everything emitted for      *)
(* transaction i precedes everything emitted for a later transaction, and  *)
(* the children of an accept are contiguous, in rejection-history order,   *)
(* immediately before the accept's own comment.                            *)
C6_OutputOrder ==
  pc \in {"loading", "loaded"} =>
    \A i \in Processed :
      LET first == EmittedUpTo(i - 1) + 1
          last == EmittedUpTo(i)
      IN  /\ last <= Len(comments)
          /\ \A k \in first..last : comments[k].Timestamp = FormatNat(log[i].DateCreated)
          /\ emittedAt[i] # 0 => (emittedAt[i] = last /\ comments[last].Parent = <<>>)
          /\ \A k \in 1..ChildrenFor(i) :
               /\ comments[first + k - 1].Parent # <<>>
               /\ comments[first + k - 1].Parent = Hash(comments[EmittedUpTo(RejectsBefore(i)[k])])

C6_Witness ==
  /\ pc = "loaded"
  /\ Len(log) = 4
  /\ IsReject(1) /\ IsReject(2) /\ log[1].AuthorPHID = "u1" /\ log[2].AuthorPHID = "u1"
  /\ log[3].CommentPHID # Nil /\ emittedAt[3] = 3
  /\ IsAccept(4) /\ log[4].AuthorPHID = "u1"
  /\ Len(comments) = 6
  /\ comments[4].Parent = Hash(comments[1])
  /\ comments[5].Parent = Hash(comments[2])
  /\ comments[6].Parent = <<>> /\ comments[6].Resolved = Ptr(TRUE)

-----------------------------------------------------------------------------
(* Properties of FilterOverlapping *)

RECURSIVE ThreadComments(_)
ThreadComments(ths) ==
  IF ths = <<>> THEN <<>>
  ELSE <<Head(ths).Comment>> \o ThreadComments(Head(ths).Children) \o ThreadComments(Tail(ths))

Candidates == {ThreadComments(threads)[i] : i \in 1..Len(ThreadComments(threads))}

Excluded(c, overlaps(_, _)) == \E j \in 1..Len(exclude) : overlaps(c, exclude[j])

FilterCorrect(overlaps(_, _)) ==
  /\ \A i \in 1..Len(filtered) : ~Excluded(filtered[i], overlaps)
  /\ \A c \in Candidates :
       ~Excluded(c, overlaps) => Cardinality({i \in 1..Len(filtered) : filtered[i] = c}) = 1

QuotedReplyScenario ==
  /\ exclude = <<originalComment>>
  /\ Candidates = {originalComment, quotedComment, replyComment}

(* C2: the result of FilterOverlapping holds no comment overlapping an     *)
(* exclusion and holds every candidate (parent or reply) that overlaps no  *)
(* exclusion exactly once, for the hash-keyed map and for the thread       *)
(* forest; with the original excluded and the original, its quote and a    *)
(* reply as candidates, the result is exactly the reply.                   *)
C2_FilterOverlapping ==
  /\ pc = "map" => FilterCorrect(CommentOverlaps)
  /\ pc = "flattened" => FilterCorrect(OverlapsStrict)
  /\ pc = "threads" => FilterCorrect(Overlaps)
  /\ (pc # "init" /\ QuotedReplyScenario) => filtered = <<replyComment>>

C2_Witness ==
  /\ pc = "threads"
  /\ QuotedReplyScenario
  /\ Len(threads) = 1
  /\ filtered = <<replyComment>>

-----------------------------------------------------------------------------
(* Properties of Overlaps *)

AllOverlap ==
  /\ out.comment_ab /\ out.comment_ba
  /\ out.strict_ab /\ out.strict_ba
  /\ out.agnostic_ab /\ out.agnostic_ba

AllEqual(v) ==
  /\ out.comment_ab = v /\ out.comment_ba = v
  /\ out.strict_ab = v /\ out.strict_ba = v
  /\ out.agnostic_ab = v /\ out.agnostic_ba = v

(* C3: each variant of Overlaps gives the same answer for (a, b) and (b, a) *)
C3_OverlapsSymmetric ==
  pc = "overlaps" =>
    /\ out.comment_ab = out.comment_ba
    /\ out.strict_ab = out.strict_ba
    /\ out.agnostic_ab = out.agnostic_ba

C3_Witness ==
  /\ pc = "overlaps"
  /\ a.Description = QuoteDescription(b)
  /\ a.Location # Nil
  /\ out.comment_ab /\ out.comment_ba

Quotes(q, c) ==
  /\ \/ q.Description = c.Author \o <<":", LF, LF>> \o c.Description
     \/ q.Description = ReplaceNewlines(c.Author \o <<":", LF, LF>> \o c.Description)
  /\ q.Location = c.Location
  /\ q.Resolved = Nil /\ c.Resolved = Nil

(* C4: a comment and its quotation (author, colon, two newlines,           *)
(* description; also with the newlines written as backslash-n) at the same *)
(* location, both with unset resolved fields, overlap in both orders       *)
(* whatever the author, timestamp and parent of the quotation.             *)
C4_QuotationOverlaps ==
  (pc = "overlaps" /\ (Quotes(b, a) \/ Quotes(a, b))) => AllOverlap

C4_Witness ==
  /\ pc = "overlaps"
  /\ b.Description = ReplaceNewlines(QuoteDescription(a))
  /\ Quotes(b, a)
  /\ b.Author # a.Author /\ b.Timestamp # a.Timestamp /\ b.Parent # <<>>
  /\ AllOverlap

(* C7: in the timestamp-strict variants, two comments without location     *)
(* whose descriptions overlap do not overlap when exactly one resolved     *)
(* field is set, overlap when both are set exactly if the values and the   *)
(* timestamp strings are equal, and overlap when both are unset.           *)
C7_ResolvedStrictness ==
  (pc = "overlaps" /\ descriptionOverlaps(a, b) /\ a.Location = Nil /\ b.Location = Nil) =>
    LET expected ==
          IF a.Resolved = Nil /\ b.Resolved = Nil THEN TRUE
          ELSE IF a.Resolved = Nil \/ b.Resolved = Nil THEN FALSE
          ELSE a.Resolved[1] = b.Resolved[1] /\ a.Timestamp = b.Timestamp
    IN  /\ out.comment_ab = expected /\ out.comment_ba = expected
        /\ out.strict_ab = expected /\ out.strict_ba = expected

C7_Witness ==
  /\ pc = "overlaps"
  /\ a.Description = b.Description /\ a.Location = Nil /\ b.Location = Nil
  /\ a.Resolved = Ptr(TRUE) /\ b.Resolved = Ptr(TRUE)
  /\ a.Timestamp # b.Timestamp
  /\ ~out.comment_ab /\ ~out.strict_ab

ResolvedCompatible(x, y) ==
  \/ x.Resolved = Nil /\ y.Resolved = Nil
  \/ x.Resolved # Nil /\ y.Resolved # Nil /\ x.Resolved[1] = y.Resolved[1]

SameAnchor(x, y) ==
  \/ x.Location = Nil /\ y.Location = Nil
  \/ /\ x.Location # Nil /\ y.Location # Nil
     /\ x.Location[1].Commit = y.Location[1].Commit
     /\ x.Location[1].Path = y.Location[1].Path
     /\ \/ x.Location[1].Range = Nil /\ y.Location[1].Range = Nil
        \/ /\ x.Location[1].Range # Nil /\ y.Location[1].Range # Nil
           /\ x.Location[1].Range[1].StartLine = y.Location[1].Range[1].StartLine

AllThree == descriptionOverlaps(a, b) /\ ResolvedCompatible(a, b) /\ SameAnchor(a, b)

(* C8 as stated: in every variant, Overlaps implies overlapping            *)
(* descriptions, compatible resolved states and compatible locations.      *)
C8_OverlapsImpliesAllThree ==
  pc = "overlaps" =>
    /\ out.comment_ab => AllThree
    /\ out.strict_ab => AllThree
    /\ out.agnostic_ab => AllThree

(* C8 as amended: the timestamp-strict variants imply all three; the       *)
(* timestamp-agnostic variant implies overlapping descriptions and         *)
(* compatible locations, and compatible resolved states only for comments  *)
(* with no location or with a location whose path is empty.                *)
C8_OverlapsImpliesAmended ==
  pc = "overlaps" =>
    /\ out.comment_ab => AllThree
    /\ out.strict_ab => AllThree
    /\ out.agnostic_ab =>
         /\ descriptionOverlaps(a, b) /\ SameAnchor(a, b)
         /\ (a.Location = Nil \/ a.Location[1].Path = "") => ResolvedCompatible(a, b)

C8_Witness ==
  /\ pc = "overlaps"
  /\ out.agnostic_ab
  /\ a.Location # Nil /\ a.Location[1].Path = ""
  /\ a.Resolved = Ptr(FALSE) /\ b.Resolved = Ptr(FALSE)
  /\ a.Timestamp # b.Timestamp

(* C9: two comments with overlapping descriptions and unset resolved       *)
(* fields overlap exactly if both have no location, or both have one with  *)
(* equal commit, equal path and both ranges absent or both present with    *)
(* equal start line; a located comment never overlaps an unlocated one and *)
(* a whole-file location never overlaps a line location.                   *)
C9_LocationCompatibility ==
  (pc = "overlaps" /\ descriptionOverlaps(a, b) /\ a.Resolved = Nil /\ b.Resolved = Nil) =>
    AllEqual(SameAnchor(a, b))

C9_Witness ==
  /\ pc = "overlaps"
  /\ a.Description = b.Description /\ a.Resolved = Nil /\ b.Resolved = Nil
  /\ a.Location = Ptr(CommentLocation("C1", "f", Nil))
  /\ b.Location = Ptr(CommentLocation("C1", "f", Ptr(CommentRange(1))))
  /\ AllEqual(FALSE)

-----------------------------------------------------------------------------
(* Properties of Write, Parse and Hash *)

(* C10: parsing a written comment succeeds and the parsed comment has the  *)
(* hash of the original, also when the timestamp is zero-padded by Write,  *)
(* when resolved is set to false and when the location has no range.       *)
C10_RoundTrip ==
  pc = "roundtrip" => (out.ok /\ out.parsedHash = out.hash)

C10_Witness ==
  /\ pc = "roundtrip"
  /\ Len(a.Timestamp) < 10 /\ out.parsed.Timestamp # a.Timestamp
  /\ a.Resolved = Ptr(FALSE)
  /\ a.Location # Nil /\ a.Location[1].Range = Nil
  /\ out.parsedHash = out.hash

(* the timestamp as it stands in serialized bytes *)
SerializedTimestamp(bytes) == JsonUnescape(Field(bytes, "timestamp", <<>>))

(* a decimal string of fewer than 10 characters *)
ShortDecimal(ts) == Len(ts) < TimestampWidth /\ AllDigits(ts)

(* C11: two comments that differ only in timestamps that are decimal       *)
(* strings shorter than 10 characters denoting the same integer have the   *)
(* same serialized bytes, the same note and the same hash, and the         *)
(* serialized timestamp has at least 10 digits; a timestamp that does not  *)
(* parse as an integer is serialized unchanged.                            *)
C11_TimestampNormalised ==
  pc = "serialized" =>
    /\ (ShortDecimal(a.Timestamp) /\ ShortDecimal(b.Timestamp)
        /\ ParseInt(a.Timestamp) = ParseInt(b.Timestamp))
         => /\ out.bytesA = out.bytesB
            /\ out.noteA = out.noteB
            /\ out.hashA = out.hashB
            /\ Len(SerializedTimestamp(out.bytesA)) >= TimestampWidth
            /\ AllDigits(SerializedTimestamp(out.bytesA))
    /\ ~ParseIntOk(a.Timestamp) => SerializedTimestamp(out.bytesA) = a.Timestamp
    /\ (out.hashA = out.hashB) = (out.bytesA = out.bytesB)

C11_Witness ==
  /\ pc = "serialized"
  /\ a.Timestamp = <<"1", "2", "3", "4", "5">>
  /\ b.Timestamp = <<"0", "1", "2", "3", "4", "5">>
  /\ a.Description # <<>> /\ a.Location # Nil
  /\ out.hashA = out.hashB
  /\ SerializedTimestamp(out.bytesA) = <<"0", "0", "0", "0", "0", "1", "2", "3", "4", "5">>

-----------------------------------------------------------------------------
(* Properties of the pass over a repository *)

(* the latest pass ran to its end *)
Completed == lastPass.repo # "" /\ ~lastPass.aborted /\ ~lastPass.crashed

(* the repository of the latest pass as that pass found it *)
RepoBefore == lastPass.before.repoState[lastPass.repo]

(* the repository of the latest pass after its pull, if it pulled *)
RepoPulled == lastPass.pulled

FingerprintBefore == <<"sha1", RepoPulled>>

(* the latest pass found the fingerprint it had stored *)
WasUnchanged ==
  MapGet(lastPass.before.processedStates, lastPass.repo, <<>>) = FingerprintBefore

CallsOf(ops) == SelectSeq(calls, LAMBDA c : c.op \in ops)

CachedReviews == MapGet(openReviews, lastPass.repo, <<>>)

NoOverlap(c, known) == \A h \in DOMAIN known : ~CommentOverlaps(c, known[h])

LoadedFor(review) == LoadComments(lastPass.before.transactionLogs[review.ID]).comments

(* the calls the harvest of one review is to make *)
ReviewHarvest(review) ==
  LET first == GetFirstCommit(review, RepoBefore)
      fresh == SelectSeq(LoadedFor(review),
                         LAMBDA c : NoOverlap(c, MapGet(existingComments, Deref(first), EmptyNote)))
  IN  <<Call("GetFirstCommit", <<review.ID>>)>> \o
      (IF first = Nil THEN <<>>
       ELSE <<Call("LoadComments", <<review.ID>>)>> \o
            [i \in 1..Len(fresh) |->
               Call("AppendNote", <<Deref(first), Write(fresh[i]), fresh[i].Author>>)])

RECURSIVE ExpectedHarvest(_)
ExpectedHarvest(reviews) ==
  IF reviews = <<>> THEN <<>>
  ELSE ReviewHarvest(Head(reviews)) \o ExpectedHarvest(Tail(reviews))

(* C12: in a completed pass, for every review of the cached open-review    *)
(* list with a first commit, exactly the loaded comments that overlap no   *)
(* comment cached as known for that commit are appended, at that commit,   *)
(* with their author; a review without a first commit appends nothing.     *)
C12_HarvestAppendsNew ==
  Completed =>
    AppendCalls = SelectSeq(ExpectedHarvest(CachedReviews), LAMBDA c : c.op = "AppendNote")

C12_Witness ==
  /\ Completed
  /\ Len(CachedReviews) = 2
  /\ AppendCalls # <<>>
  /\ \E i \in 1..Len(CachedReviews) :
       /\ GetFirstCommit(CachedReviews[i], RepoBefore) # Nil
       /\ \E k \in 1..Len(LoadedFor(CachedReviews[i])) :
            ~NoOverlap(LoadedFor(CachedReviews[i])[k],
                       existingComments[Deref(GetFirstCommit(CachedReviews[i], RepoBefore))])

(* C13: a completed pass that found the stored fingerprint calls neither   *)
(* EnsureRequestExists nor ListOpenReviews nor Refresh, leaves             *)
(* processedStates and openReviews as they were and existingComments as it *)
(* was but for the empty maps of the harvest, and still harvests every     *)
(* cached review.                                                          *)
C13_FingerprintGating ==
  (Completed /\ WasUnchanged) =>
    /\ CallsOf({"EnsureRequestExists", "ListOpenReviews", "Refresh"}) = <<>>
    /\ processedStates = lastPass.before.processedStates
    /\ openReviews = lastPass.before.openReviews
    /\ \A rev \in DOMAIN existingComments :
         existingComments[rev] = MapGet(lastPass.before.existingComments, rev, EmptyNote)
    /\ DOMAIN lastPass.before.existingComments \subseteq DOMAIN existingComments
    /\ CallsOf({"GetFirstCommit", "LoadComments", "AppendNote"}) = ExpectedHarvest(CachedReviews)

C13_Witness ==
  /\ Completed /\ WasUnchanged
  /\ CachedReviews # <<>>
  /\ AppendCalls # <<>>

(* the valid request notes of a revision before the latest pass *)
ValidRequests(rev) == SelectSeq(MapGet(RepoBefore.requests, rev, <<>>), ParseOk)

NotedCommits ==
  {rev \in DOMAIN RepoBefore.requests :
     RepoBefore.requests[rev] # <<>> /\ rev \in DOMAIN RepoBefore.commits}

EnsureCalls == CallsOf({"EnsureRequestExists"})

Count(seq, x) == Cardinality({i \in 1..Len(seq) : seq[i] = x})

(* C14: a completed pass that found a new fingerprint calls                *)
(* EnsureRequestExists once for every valid request note of every noted    *)
(* revision, with the comments parsed from the revision's comment notes,   *)
(* stores the service's open reviews and the new fingerprint and calls     *)
(* ListOpenReviews and Refresh once.                                       *)
C14_RequestMirroring ==
  (Completed /\ ~WasUnchanged) =>
    /\ \A i \in 1..Len(EnsureCalls) :
         /\ EnsureCalls[i].args[1] \in NotedCommits
         /\ EnsureCalls[i].args[3] =
              ParseAllValid(MapGet(RepoPulled.comments, EnsureCalls[i].args[1], <<>>))
         /\ Count(EnsureCalls, EnsureCalls[i]) =
              Count(ValidRequests(EnsureCalls[i].args[1]), EnsureCalls[i].args[2])
    /\ \A rev \in NotedCommits : \A k \in 1..Len(ValidRequests(rev)) :
         \E i \in 1..Len(EnsureCalls) :
           EnsureCalls[i].args[1] = rev /\ EnsureCalls[i].args[2] = ValidRequests(rev)[k]
    /\ openReviews[lastPass.repo] = remoteReviews
    /\ processedStates[lastPass.repo] = FingerprintBefore
    /\ Len(CallsOf({"ListOpenReviews"})) = 1
    /\ Len(CallsOf({"Refresh"})) = 1

C14_Witness ==
  /\ Completed /\ ~WasUnchanged
  /\ lastPass.before.processedStates # EmptyNote
  /\ \E i \in 1..Len(EnsureCalls) : EnsureCalls[i].args[3] # EmptyNote

(* C15: a pass with syncToRemote whose PullUpdates fails makes no other    *)
(* call, leaves processedStates, existingComments, openReviews and the     *)
(* repository as they were, and the process goes on to further passes.     *)
C15_PullFailureAborts ==
  /\ lastPass.pullFailed =>
       /\ calls = <<Call("PullUpdates", <<lastPass.repo>>)>>
       /\ processedStates = lastPass.before.processedStates
       /\ existingComments = lastPass.before.existingComments
       /\ openReviews = lastPass.before.openReviews
       /\ repoState = lastPass.before.repoState
       /\ lastPass.remoteAfter = lastPass.before.remoteNotes[lastPass.repo]
       /\ pc = "idle"
  /\ (lastPass.afterAbort /\ ~lastPass.pullFailed) =>
       Len(CallsOf({"GetRepoStateHash"})) = 1

C15_Witness ==
  /\ lastPass.pullFailed
  /\ lastPass.before.processedStates # EmptyNote
  /\ ~WasUnchanged
  /\ \E i \in 1..Len(CachedReviews) : LoadedFor(CachedReviews[i]) # <<>>
  /\ calls = <<Call("PullUpdates", <<lastPass.repo>>)>>

(* the repository after the given AppendNote calls *)
RECURSIVE WithAppended(_, _)
WithAppended(rs, appends) ==
  IF appends = <<>> THEN rs
  ELSE WithAppended(
         [rs EXCEPT !.comments =
            (Head(appends).args[1] :>
               (MapGet(rs.comments, Head(appends).args[1], <<>>) \o <<Head(appends).args[2]>>))
            @@ @],
         Tail(appends))

(* C16: a pass whose PushUpdates fails returns normally after that one     *)
(* attempt; the notes it appended stay in the repository, nothing reaches  *)
(* the remote, and processedStates holds the fingerprint the pass          *)
(* computed.                                                               *)
C16_PushFailureNotFatal ==
  lastPass.pushFailed =>
    /\ pc = "idle"
    /\ Len(CallsOf({"PushUpdates"})) = 1
    /\ calls[Len(calls)].op = "PushUpdates"
    /\ repoState[lastPass.repo].comments = WithAppended(RepoPulled, AppendCalls).comments
    /\ lastPass.remoteAfter = lastPass.before.remoteNotes[lastPass.repo]
    /\ processedStates[lastPass.repo] = FingerprintBefore

C16_Witness ==
  /\ lastPass.pushFailed
  /\ AppendCalls # <<>>
  /\ repoState[lastPass.repo].comments # lastPass.remoteAfter

IsPrefix(s, t) == Len(s) <= Len(t) /\ SubSeq(t, 1, Len(s)) = s

(* the notes of every revision of base are kept, in place, in the          *)
(* repository of the latest pass                                           *)
NotesKept(base) ==
  \A rev \in DOMAIN base.comments :
    /\ rev \in DOMAIN repoState[lastPass.repo].comments
    /\ IsPrefix(base.comments[rev], repoState[lastPass.repo].comments[rev])

(* the notes of base are kept and what follows them is what AppendNote was *)
(* called with                                                             *)
AppendedTo(base) ==
  /\ NotesKept(base)
  /\ repoState[lastPass.repo].comments = WithAppended(base, AppendCalls).comments
  /\ repoState[lastPass.repo].requests = base.requests
  /\ repoState[lastPass.repo].commits = base.commits

(* C18 as claimed: for every revision the notes present before a pass are  *)
(* a prefix of the notes present after it.                                 *)
C18_AppendOnly == lastPass.repo # "" => NotesKept(RepoBefore)

(* C18: a pass without remote sync writes the notes only with AppendNote,  *)
(* so the notes of every revision before the pass are a prefix of those    *)
(* after it; a pass with remote sync first replaces the local comment      *)
(* notes by the remote's, and from there on only appends.                  *)
C18_AppendOnlyAfterPull ==
  lastPass.repo # "" =>
    /\ AppendedTo(RepoPulled)
    /\ ~lastPass.syncToRemote => RepoPulled = RepoBefore
    /\ (lastPass.syncToRemote /\ ~lastPass.pullFailed) =>
         RepoPulled = [RepoBefore EXCEPT !.comments = lastPass.before.remoteNotes[lastPass.repo]]

C18_Witness ==
  /\ Completed
  /\ lastPass.syncToRemote
  /\ RepoPulled.comments # RepoBefore.comments
  /\ AppendCalls # <<>>
  /\ \E rev \in DOMAIN RepoPulled.comments :
       /\ RepoPulled.comments[rev] # <<>>
       /\ Len(repoState[lastPass.repo].comments[rev]) > Len(RepoPulled.comments[rev])

-----------------------------------------------------------------------------
(* Properties of EnsureRequestExists *)

(* the review is one of the request's revision on the request's branch *)
IsReviewOfRequest(review) ==
  /\ \E i \in 1..Len(review.Hashes) : review.Hashes[i] = <<commitHashType, ensuredRevision>>
  /\ review.Branch \in {ensuredRequest.reviewRef, abbreviateRefName(ensuredRequest.reviewRef)}

CreatedInLatestCall ==
  \E i \in 1..Len(conduitCalls) : conduitCalls[i].op = "differential.createrevision"

(* C17: EnsureRequestExists calls differential.createrevision only when    *)
(* the service held no review, of whatever status, of the revision's       *)
(* commit hash on the request's review ref, and over all the calls for a   *)
(* request and revision at most one revision is created.                   *)
C17_IdempotentCreation ==
  /\ CreatedInLatestCall =>
       \A i \in 1..Len(serviceBefore) : ~IsReviewOfRequest(serviceBefore[i])
  /\ revisionsCreated <= 1
  /\ Cardinality({i \in 1..Len(reviewsOnService) : IsReviewOfRequest(reviewsOnService[i])}) <= 1

C17_Witness ==
  /\ revisionsCreated = 1
  /\ ensureCalls = MaxEnsureCalls
  /\ Len(reviewsOnService) = 1
  /\ conduitCalls = <<Call("differential.query", <<ensuredRevision>>)>>
  /\ \E i \in 1..Len(serviceBefore) :
       IsReviewOfRequest(serviceBefore[i]) /\ isClosed(serviceBefore[i])

-----------------------------------------------------------------------------
(* Properties of LoadComments: parents *)

(* the hashes of the comments emitted before position k *)
HashesBefore(k) == {Hash(comments[j]) : j \in 1..(k - 1)}

RepliesTo(i, j) ==
  /\ j < i
  /\ log[i].CommentPHID # Nil
  /\ log[j].CommentPHID # Nil
  /\ log[i].Payload.ReplyToCommentPHID = log[j].CommentPHID
  /\ emittedAt[j] # 0

(* C20: a transaction whose comment replies to the comment of an earlier   *)
(* transaction, itself emitted, is emitted with the hash of that earlier   *)
(* comment as parent.                                                      *)
C20_ReplyResolution ==
  \A i \in 1..(pos - 1) : \A j \in 1..(i - 1) :
    RepliesTo(i, j) =>
      /\ emittedAt[i] # 0
      /\ comments[emittedAt[i]].Parent = Hash(comments[emittedAt[j]])

-----------------------------------------------------------------------------
(* Properties of LoadComments: the comments that are not returned *)

OwnHasLocation(i) == log[i].CommentPHID # Nil /\ log[i].Payload.FileName # ""

OwnDescription(i) == IF log[i].CommentPHID # Nil THEN log[i].Payload.Content ELSE <<>>

OwnResolved(i) == IsAccept(i) \/ IsReject(i)

(* the reply-to reference of transaction i is a key of the map *)
OwnParentFound(i) ==
  /\ log[i].CommentPHID # Nil
  /\ log[i].Payload.ReplyToCommentPHID # Nil
  /\ \E j \in 1..(i - 1) :
       log[j].PHID = Deref(log[i].Payload.ReplyToCommentPHID) /\ emittedAt[j] # 0

(* C21: the own comment of a transaction is emitted if and only if it has  *)
(* a parent, a location, a non-empty description or a resolved value; a    *)
(* transaction with none of them adds no own comment to the output.        *)
C21_NonEmptyEmission ==
  /\ \A i \in Processed :
       /\ emittedAt[i] # 0 <=>
            (OwnParentFound(i) \/ OwnHasLocation(i) \/ OwnDescription(i) # <<>> \/ OwnResolved(i))
       /\ emittedAt[i] # 0 =>
            /\ comments[emittedAt[i]].Description = OwnDescription(i)
            /\ comments[emittedAt[i]].Location # Nil <=> OwnHasLocation(i)
            /\ comments[emittedAt[i]].Resolved # Nil <=> OwnResolved(i)
            /\ comments[emittedAt[i]].Timestamp = FormatNat(log[i].DateCreated)
  /\ pc # "crashed" => Len(comments) = EmittedUpTo(pos - 1)

C21_Witness ==
  /\ pc = "loaded"
  /\ \E i \in Processed : emittedAt[i] = 0
  /\ \E i \in Processed :
       emittedAt[i] # 0 /\ OwnHasLocation(i) /\ OwnDescription(i) = <<>> /\ ~OwnResolved(i)
  /\ \E i \in Processed :
       emittedAt[i] # 0 /\ ~OwnHasLocation(i) /\ OwnDescription(i) = <<>> /\ OwnResolved(i)
  /\ \E i \in Processed :
       emittedAt[i] # 0 /\ ~OwnHasLocation(i) /\ OwnDescription(i) # <<>> /\ ~OwnResolved(i)

(* the transactions processed so far, but for those in the set skip *)
ProcessedWithout(skip) ==
  SelectSeq(SubSeq(log, 1, pos - 1), LAMBDA t : t.PHID[2] \notin skip)

Dropped == {i \in Processed : emittedAt[i] = 0}

(* C22 as claimed: a transaction whose own comment is dropped changes the  *)
(* rejection history or the map that the later transactions read: without  *)
(* it the loop arrives at another one.                                     *)
C22_DroppedInfluences ==
  pc # "crashed" =>
    \A i \in Dropped :
      \/ LoadComments(ProcessedWithout({i})).rejectionCommentsByUser # rejectionCommentsByUser
      \/ LoadComments(ProcessedWithout({i})).commentsByPHID # commentsByPHID

(* C22: the transactions whose own comment is dropped leave no trace: the  *)
(* loop over the log without them arrives at the same comments, the same   *)
(* map and the same rejection history.                                     *)
C22_DroppedLeavesNoTrace ==
  pc # "crashed" =>
    /\ LoadComments(ProcessedWithout(Dropped)).comments = comments
    /\ LoadComments(ProcessedWithout(Dropped)).commentsByPHID = commentsByPHID
    /\ LoadComments(ProcessedWithout(Dropped)).rejectionCommentsByUser = rejectionCommentsByUser

C22_Witness ==
  /\ pc = "loaded"
  /\ \E j, i, k \in Processed :
       /\ j < i /\ i < k
       /\ log[j].AuthorPHID = log[i].AuthorPHID /\ log[k].AuthorPHID = log[i].AuthorPHID
       /\ IsReject(j) /\ i \in Dropped /\ IsAccept(k)
       /\ emittedAt[k] # 0
       /\ comments[emittedAt[k] - 1].Parent = Hash(comments[emittedAt[j]])

-----------------------------------------------------------------------------
(* Properties of the caches of the mirror package *)

(* C23: a pass over repository B, run after repository A was processed,    *)
(* leaves the comments known for every revision of A as they were.         *)
C23_PerRepositoryCache ==
  (lastPass.repo = "B" /\ "A" \in DOMAIN lastPass.before.processedStates) =>
    \A rev \in DOMAIN repoState["A"].commits :
      MapGet(existingComments, rev, EmptyNote) =
        MapGet(lastPass.before.existingComments, rev, EmptyNote)

-----------------------------------------------------------------------------
(* Properties of the pass: notes that are no comments or requests *)

Malformed(notes) == {i \in 1..Len(notes) : ~ParseOk(notes[i])}

(* the comment notes of a revision as the latest pass read them *)
NotesOf(rev) == MapGet(RepoPulled.comments, rev, <<>>)

(* the latest pass read the notes of a revision that has a malformed       *)
(* comment note or a malformed request note                                *)
ReadMalformed ==
  /\ lastPass.repo # "" /\ ~lastPass.aborted /\ ~WasUnchanged
  /\ \E rev \in NotedCommits :
       \/ Malformed(MapGet(RepoPulled.comments, rev, <<>>)) # {}
       \/ Malformed(RepoBefore.requests[rev]) # {}

-----------------------------------------------------------------------------
(* Publishing the comments of the repository                               *)

Published == pc \in {"published", "crashed"}

SentTo(method) == SelectSeq(out.conduit, LAMBDA call : call.method = method)

(* C25: when the service answers with an error to createinline, to         *)
(* createcomment or to updateunitresults, mirrorCommentsIntoReview does    *)
(* not abort and goes on to send every request it built from the new       *)
(* comments.                                                               *)
C25_PublishFailuresSkipped ==
  Published =>
    /\ pc = "published"
    /\ Len(SentTo("differential.createinline"))
         = Len(InlineRequests(a.review, out.newComments, CommitToDiffMap(a.review.Diffs)))

HasDiff(c) ==
  /\ c.Location # Nil
  /\ Deref(c.Location).Path # ""
  /\ Deref(c.Location).Commit \in DOMAIN CommitToDiffMap(a.review.Diffs)
  /\ CommitToDiffMap(a.review.Diffs)[Deref(c.Location).Commit] # ""

ExpectedInline ==
  LET sel == SelectSeq(out.newComments, HasDiff)
  IN  [i \in 1..Len(sel) |->
         [RevisionID |-> a.review.ID,
          DiffID |-> CommitToDiffMap(a.review.Diffs)[Deref(sel[i].Location).Commit],
          FilePath |-> Deref(sel[i].Location).Path,
          LineNumber |-> IF Deref(sel[i].Location).Range = Nil THEN 1
                         ELSE Deref(Deref(sel[i].Location).Range).StartLine,
          IsNewFile |-> 1,
          Content |-> sel[i].Author \o <<":", LF, LF>> \o sel[i].Description]]

(* C27: buildCommentRequests returns one inline request, in input order,   *)
(* for exactly the comments with a location of non-empty path whose commit *)
(* has a non-empty diff id, each with the review id, the diff id, the      *)
(* path, the start line of the range or 1, IsNewFile 1 and the quoted      *)
(* description; and one request with action "comment" and attached inlines *)
(* if there is an inline request, none otherwise.                          *)
C27_BuildCommentRequests ==
  pc = "published" =>
    /\ out.inlineRequests = ExpectedInline
    /\ out.commentRequests =
         IF ExpectedInline # <<>>
           THEN <<[RevisionID |-> a.review.ID, Action |-> "comment", AttachInlines |-> TRUE]>>
           ELSE <<>>

C27_Witness ==
  /\ pc = "published"
  /\ Len(out.newComments) = 3
  /\ Len(out.inlineRequests) = 2
  /\ out.inlineRequests[1].LineNumber = 42
  /\ out.inlineRequests[2].LineNumber = 1
  /\ \E i \in 1..3 : out.newComments[i].Location # Nil /\ ~HasDiff(out.newComments[i])
  /\ Len(out.commentRequests) = 1

-----------------------------------------------------------------------------
(* Absent data in EnsureRequestExists                                      *)

Untouched ==
  /\ reviewsOnService' = reviewsOnService
  /\ revisionsCreated' = revisionsCreated
  /\ pc' = "idle"
  /\ \A i \in 1..Len(conduitCalls') : conduitCalls'[i].op = "differential.query"

NoMergeBase ==
  \E headDetails \in {Nil, Ptr(ensuredRevision), Ptr("r2")},
     headMergeBaseErr, diffErr, updateErr, closeErr \in BOOLEAN :
    CallEnsureRequestExists(Nil, headDetails, headMergeBaseErr, diffErr, updateErr, closeErr)

NoReviewRef ==
  \E headMergeBaseErr, diffErr, updateErr, closeErr \in BOOLEAN :
    CallEnsureRequestExists(Ptr("r0"), Nil, headMergeBaseErr, diffErr, updateErr, closeErr)

(* C26: a call of EnsureRequestExists in which GetMergeBase fails, or in   *)
(* which the change is not merged and the review ref has no details,       *)
(* returns without a call that creates, updates or closes anything on the  *)
(* service: the reviews stay as they were, no revision is created, and the *)
(* process goes on.                                                        *)
C26_AbsentDataShortCircuits ==
  [][(NoMergeBase => Untouched /\ conduitCalls' = <<>>) /\ (NoReviewRef => Untouched)]_vars

C26_Witness ==
  /\ ensureCalls > 0
  /\ pc = "idle"
  /\ conduitCalls = <<>>
  /\ \E i \in 1..Len(reviewsOnService) :
       /\ ~isClosed(reviewsOnService[i])
       /\ hasHash(reviewsOnService[i], ensuredRevision)

-----------------------------------------------------------------------------
(* The last commit of a diff                                               *)

LocalCommits ==
  IF IsMap(a.Properties) /\ "local:commits" \in DOMAIN a.Properties.val
       /\ IsMap(a.Properties.val["local:commits"])
    THEN a.Properties.val["local:commits"].val
  ELSE EmptyNote

TimeOf(commit) == LocalCommits[commit].val["time"].val

(* the entries whose value is a map with a string "time" *)
Timed == {c \in DOMAIN LocalCommits : IsMap(LocalCommits[c]) /\ HasString(LocalCommits[c], "time")}

IntegerTimed == {c \in Timed : ParseIntOk(TimeOf(c))}

IsLatest(commit) ==
  /\ commit \in IntegerTimed
  /\ \A c \in IntegerTimed : ParseInt(TimeOf(c)) <= ParseInt(TimeOf(commit))

(* C28 as stated: for every diff findLastCommit returns the commit of the  *)
(* entry with the greatest integer time among the entries that are maps    *)
(* with a string "time", and "" when there is no such entry.               *)
C28_LastCommit ==
  pc # "init" =>
    /\ pc = "returned"
    /\ IF IntegerTimed = {} THEN out.commit = "" ELSE IsLatest(out.commit)

(* C28: for every diff whose string times are all integers findLastCommit  *)
(* returns a commit of greatest time among the entries that are maps with  *)
(* a string "time", and "" when there is none; a diff with a string time   *)
(* that is no integer ends the process.                                    *)
C28_LastCommitOrFatal ==
  pc # "init" =>
    IF Timed # IntegerTimed THEN pc = "crashed"
    ELSE /\ pc = "returned"
         /\ IF Timed = {} THEN out.commit = "" ELSE IsLatest(out.commit)

C28_Witness ==
  /\ pc = "returned"
  /\ Cardinality(DOMAIN LocalCommits) = 3
  /\ Cardinality(Timed) = 2
  /\ \E c \in Timed : ParseInt(TimeOf(c)) < ParseInt(TimeOf(out.commit))

-----------------------------------------------------------------------------
(* The first commit of a review                                            *)

(* the commits listed as a two-element pair of type "gtcm" for which the   *)
(* repository returns details with an integer time                         *)
Resolvable ==
  {c \in DOMAIN b.commits :
     /\ \E i \in 1..Len(a.Hashes) : a.Hashes[i] = <<"gtcm", c>>
     /\ ParseIntOk(b.commits[c])}

(* C29: GetFirstCommit returns a commit that is listed in the hashes of    *)
(* the review as a two-element pair of type "gtcm", has details with an    *)
(* integer time in the repository, and is no younger than any other such   *)
(* commit; it returns nil exactly when there is no such commit.            *)
C29_FirstCommit ==
  pc = "returned" =>
    IF Resolvable = {} THEN out = Nil
    ELSE /\ out # Nil
         /\ Deref(out) \in Resolvable
         /\ \A c \in Resolvable : ParseInt(b.commits[Deref(out)]) <= ParseInt(b.commits[c])

C29_Witness ==
  /\ pc = "returned"
  /\ out # Nil
  /\ Cardinality(Resolvable) = 2
  /\ \E c \in Resolvable : ParseInt(b.commits[Deref(out)]) < ParseInt(b.commits[c])
  /\ \E i \in 1..Len(a.Hashes) : a.Hashes[i] = <<"gtcm", "c3">>

-----------------------------------------------------------------------------
(* The time limit of the user caches                                       *)

CacheOfLastLookup ==
  IF lastLookup.cache = "userQueryCache" THEN userQueryCache ELSE userLookupCache

(* C30: a lookup of a key at time t' that finds an entry stored at time t  *)
(* returns the stored record without a call of the resolver if and only if *)
(* t' - t is less than 5 minutes; otherwise the resolver is called and, if *)
(* it succeeds, the entry holds the resolver's record and the time of the  *)
(* new storing.                                                            *)
C30_CacheTimeLimit ==
  lastLookup # <<>> /\ lastLookup.found # Nil =>
    LET stored == Deref(lastLookup.found)
    IN  /\ ~lastLookup.called <=> lastLookup.at - stored.Time < 5
        /\ ~lastLookup.called =>
             /\ lastLookup.result = stored.User
             /\ ~lastLookup.err
             /\ CacheOfLastLookup[lastLookup.key] = stored
        /\ lastLookup.called /\ ~lastLookup.err =>
             /\ lastLookup.result = lastLookup.f.user
             /\ CacheOfLastLookup[lastLookup.key].User = lastLookup.f.user
             /\ CacheOfLastLookup[lastLookup.key].Time >= lastLookup.at
             /\ CacheOfLastLookup[lastLookup.key].Time <= now

C30_Witness ==
  /\ lastLookup # <<>>
  /\ lastLookup.found # Nil
  /\ lastLookup.at - Deref(lastLookup.found).Time = 5
  /\ lastLookup.called
  /\ ~lastLookup.err
  /\ CacheOfLastLookup[lastLookup.key].User # Deref(lastLookup.found).User

-----------------------------------------------------------------------------
(* A failed lookup of a user                                               *)

(* C39: when the resolver returns an error, userCacheLookup returns the    *)
(* error and leaves the cache as it was: no entry is added, an expired     *)
(* entry keeps its record and time, and the entry is still absent or       *)
(* expired for the next lookup of the key.                                 *)
C39_FailedLookupKeepsCache ==
  lastLookup # <<>> /\ lastLookup.f.err /\ lastLookup.called =>
    /\ lastLookup.err
    /\ IF lastLookup.found = Nil THEN lastLookup.key \notin DOMAIN CacheOfLastLookup
       ELSE /\ lastLookup.key \in DOMAIN CacheOfLastLookup
            /\ CacheOfLastLookup[lastLookup.key] = Deref(lastLookup.found)
            /\ now - CacheOfLastLookup[lastLookup.key].Time >= 5

C39_Witness ==
  /\ lastLookup # <<>>
  /\ lastLookup.called
  /\ lastLookup.err
  /\ lastLookup.found # Nil
  /\ Deref(lastLookup.found).User # Nil
  /\ now > lastLookup.at

-----------------------------------------------------------------------------
(* A change that is already merged                                         *)

Merged ==
  \E headDetails \in {Nil, Ptr(ensuredRevision), Ptr("r2")},
     headMergeBaseErr, diffErr, updateErr, closeErr \in BOOLEAN :
    CallEnsureRequestExists(Ptr(ensuredRevision), headDetails, headMergeBaseErr, diffErr,
                            updateErr, closeErr)

(* the reviews of the request that are neither closed nor abandoned *)
OpenOfRequest ==
  {i \in 1..Len(reviewsOnService) :
     /\ IsReviewOfRequest(reviewsOnService[i])
     /\ reviewsOnService[i].Status \notin {differentialClosedStatus, differentialAbandonedStatus}}

(* C32: a call of EnsureRequestExists in which the merge base is the       *)
(* revision calls differential.close once for every review of the revision *)
(* and review ref that is neither closed nor abandoned and for no other,   *)
(* and creates no diff, no revision and no comment.                        *)
C32_MergedClosesOpen ==
  [][Merged =>
       /\ \A i \in OpenOfRequest :
            Cardinality({k \in 1..Len(conduitCalls') :
                           conduitCalls'[k] = Call("differential.close", <<reviewsOnService[i].ID>>)}) = 1
       /\ \A k \in 1..Len(conduitCalls') :
            \/ conduitCalls'[k].op = "differential.query"
            \/ /\ conduitCalls'[k].op = "differential.close"
               /\ \E i \in OpenOfRequest : conduitCalls'[k].args = <<reviewsOnService[i].ID>>
       /\ revisionsCreated' = revisionsCreated
       /\ diffsCreated' = diffsCreated
       /\ Len(reviewsOnService') = Len(reviewsOnService)]_vars

C32_Witness ==
  /\ ensureCalls > 0
  /\ \E k \in 1..Len(conduitCalls) : conduitCalls[k].op = "differential.close"
  /\ \E i \in 1..Len(serviceBefore) :
       IsReviewOfRequest(serviceBefore[i]) /\ ~isClosed(serviceBefore[i])
  /\ \A i \in 1..Len(reviewsOnService) : isClosed(reviewsOnService[i])

-----------------------------------------------------------------------------
(* The diffs of a review                                                   *)

(* a call of EnsureRequestExists for a change that is not merged and whose *)
(* review ref has the head commit                                          *)
UpdateCall(headCommit, headMergeBaseErr) ==
  \E diffErr, updateErr, closeErr \in BOOLEAN :
    CallEnsureRequestExists(Ptr("r0"), Ptr(headCommit), headMergeBaseErr, diffErr, updateErr,
                            closeErr)

NewDiffs == SubSeq(diffsCreated', Len(diffsCreated) + 1, Len(diffsCreated'))

CallsFor(op, id) ==
  {k \in 1..Len(conduitCalls') : conduitCalls'[k] = Call(op, <<id>>)}

UpdateStep(headCommit, headMergeBaseErr) ==
  \A i \in 1..Len(reviewsOnService) :
    IsReviewOfRequest(reviewsOnService[i]) =>
      LET review == reviewsOnService[i]
          closed == review.Status \in {differentialClosedStatus, differentialAbandonedStatus}
          hasHead == \E h \in 1..Len(review.Hashes) : review.Hashes[h] = <<"gtcm", headCommit>>
          diffs == {k \in 1..Len(NewDiffs) : NewDiffs[k][1] = review.ID}
      IN  /\ closed =>
                /\ diffs = {}
                /\ \A op \in {"differential.updaterevision", "mirrorCommentsIntoReview",
                              "differential.close"} : CallsFor(op, review.ID) = {}
                /\ reviewsOnService'[i] = review
          /\ ~closed /\ ~headMergeBaseErr /\ hasHead =>
                /\ diffs = {}
                /\ CallsFor("differential.updaterevision", review.ID) = {}
                /\ Cardinality(CallsFor("mirrorCommentsIntoReview", review.ID)) = 1
                /\ reviewsOnService'[i] = review
          /\ diffs # {} =>
                /\ ~closed /\ ~headMergeBaseErr /\ ~hasHead
                /\ \A k \in diffs : NewDiffs[k] = <<review.ID, headCommit>>
                /\ Cardinality(diffs) = 1

(* no review holds the hash of a commit twice *)
AttachedOnce ==
  \A i \in 1..Len(reviewsOnService) :
    \A h1, h2 \in 1..Len(reviewsOnService[i].Hashes) :
      reviewsOnService[i].Hashes[h1] = reviewsOnService[i].Hashes[h2] => h1 = h2

(* C33 as stated, its last part: over repeated calls updateReviewDiffs     *)
(* makes at most one diff for a review and a head commit.                  *)
C33_OneDiffPerHead ==
  \A k1, k2 \in 1..Len(diffsCreated) : diffsCreated[k1] = diffsCreated[k2] => k1 = k2

(* C33: updateReviewDiffs writes nothing for a closed or abandoned review; *)
(* for an open review that has the head commit among its hashes it makes   *)
(* no diff and mirrors the comments; it makes a diff and calls             *)
(* differential.updaterevision only for an open review, with a merge base, *)
(* that lacks the head commit; and no review is given a diff of the same   *)
(* commit twice.                                                           *)
C33_UpdateReviewDiffs ==
  [][/\ \A headCommit \in {ensuredRevision, "r2"}, headMergeBaseErr \in BOOLEAN :
          UpdateCall(headCommit, headMergeBaseErr) => UpdateStep(headCommit, headMergeBaseErr)
     /\ AttachedOnce']_vars

C33_Witness ==
  /\ ensureCalls >= 2
  /\ Len(diffsCreated) = 1
  /\ \E i \in 1..Len(reviewsOnService) :
       /\ conduitCalls = <<Call("differential.query", <<ensuredRevision>>),
                           Call("mirrorCommentsIntoReview", <<reviewsOnService[i].ID>>)>>
       /\ diffsCreated[1] = <<reviewsOnService[i].ID, "r2">>

-----------------------------------------------------------------------------
(* The main loop and the ticker                                            *)

Finds == {i \in 1..Len(mainTrace) : mainTrace[i] = <<"findRepos">>}

(* the calls of mirror.Repo since the latest findRepos are those for the   *)
(* repositories before the position of the range, in their order           *)
OneAfterTheOther ==
  Finds # {} =>
    LET last == CHOOSE i \in Finds : \A j \in Finds : j <= i
    IN  /\ repoIndex \in 1..(Len(repos) + 1)
        /\ SubSeq(mainTrace, last + 1, Len(mainTrace)) \in
             {[k \in 1..(repoIndex - 1) |-> <<"mirror.Repo", repos[k], syncFlag>>] \o tail :
                tail \in {<<>>, <<<<"tick">>>>}}

(* every findRepos but the first comes directly after the receipt of a tick *)
TickBeforeEveryPass ==
  \A i \in Finds : i > 1 => mainTrace[i - 1] = <<"tick">>

(* C31 as stated: with and without sync_to_remote the loop receives one    *)
(* tick between the end of a pass and the start of the next, and within a  *)
(* pass mirror.Repo is called for the repositories one after the other.    *)
C31_TickDriven == TickBeforeEveryPass /\ OneAfterTheOther

(* C31: with sync_to_remote the loop receives one tick between the end of  *)
(* a pass and the start of the next; without it the loop never receives a  *)
(* tick and the next pass starts as soon as the range is over; within a    *)
(* pass mirror.Repo is called for the repositories one after the other.    *)
C31_TickDrivenWhenSyncing ==
  /\ syncFlag => TickBeforeEveryPass
  /\ ~syncFlag => /\ \A i \in 1..Len(mainTrace) : mainTrace[i] # <<"tick">>
                  /\ pc # "wait"
  /\ OneAfterTheOther

C31_Witness ==
  /\ syncFlag
  /\ Cardinality(Finds) = 2
  /\ \E i \in 1..Len(mainTrace) : mainTrace[i] = <<"tick">>
  /\ repos = <<"A", "B">>
  /\ repoIndex = 3
  /\ mainTrace[Len(mainTrace)] = <<"mirror.Repo", "B", TRUE>>

-----------------------------------------------------------------------------
(* C37: a transaction whose reply-to reference matches no entry of          *)
(* commentsByPHID does not make LoadComments fail: the step goes on to the *)
(* next transaction, the reply is emitted exactly if it has a description, *)
(* a location or a resolved value, and the emitted reply has no parent      *)

IsUnresolvedReply(t, byPHID) ==
  /\ t.CommentPHID # Nil
  /\ t.Payload.ReplyToCommentPHID # Nil
  /\ Deref(t.Payload.ReplyToCommentPHID) \notin DOMAIN byPHID

OtherwiseNonEmpty(t) ==
  \/ t.Payload.FileName # ""
  \/ t.Payload.Content # <<>>
  \/ IsAction(t, "accept")
  \/ IsAction(t, "reject")

C37_UnresolvableReply ==
  [][(/\ ProcessTransaction
      /\ IsUnresolvedReply(log[pos], commentsByPHID)
      /\ lookupUser(log[pos].AuthorPHID) # Nil)
     => /\ pc' = "loading"
        /\ pos' = pos + 1
        /\ Len(emittedAt') = pos
        /\ (emittedAt'[pos] # 0) <=> OtherwiseNonEmpty(log[pos])
        /\ emittedAt'[pos] = 0 => comments' = comments
        /\ emittedAt'[pos] # 0 =>
              /\ Len(comments') = Len(comments) + 1
              /\ emittedAt'[pos] = Len(comments')
              /\ comments'[Len(comments')].Parent = <<>>
              /\ comments'[Len(comments')].Description = log[pos].Payload.Content
    ]_vars

(* a log of three was loaded in which the second transaction replies to    *)
(* the comment of the third and the third to the comment of the first,     *)
(* which was dropped as empty; both replies were emitted without a parent  *)
C37_Witness ==
  /\ pc = "loaded"
  /\ Len(log) = 3
  /\ emittedAt[1] = 0
  /\ log[2].Payload.ReplyToCommentPHID = Ptr(log[3].Payload.PHID)
  /\ log[3].Payload.ReplyToCommentPHID = Ptr(log[1].Payload.PHID)
  /\ \A i \in 2..3 : emittedAt[i] # 0 /\ comments[emittedAt[i]].Parent = <<>>

-----------------------------------------------------------------------------
(* C38: LoadComments processes every transaction log to its end without a  *)
(* crash, also when lookupUser returns no user for the actor of a           *)
(* transaction                                                             *)

C38_NoCrash == pc # "crashed"

-----------------------------------------------------------------------------
(* C36: every comment that LoadComments returns is recognised as itself     *)
(* after it was written: the comment parsed from its note overlaps it under *)
(* the timestamp-strict Comment.Overlaps, also when its resolved field is   *)
(* set and its timestamp has fewer than 10 digits                          *)

WrittenAndParsed(c) == Parse(Write(c))

C36_WrittenRecognised ==
  \A k \in 1..Len(comments) : CommentOverlaps(WrittenAndParsed(comments[k]), comments[k])

-----------------------------------------------------------------------------
(* C34: the comment that LoadComments reconstructs from a published inline *)
(* comment overlaps the local comment it was made from, for line comments  *)
(* and for whole-file comments published at line 1                         *)

C34_NoEcho ==
  pc = "harvested" =>
    /\ Len(b) = 1
    /\ Len(out) = 1
    /\ CommentOverlaps(out[1], a)

-----------------------------------------------------------------------------
(* C35: at the end of every pass that was not aborted by a failed pull,     *)
(* for every cached open review with a first commit, every comment that    *)
(* LoadComments returned overlaps an annotation stored for that commit     *)

(* the valid comment annotations of a revision after the latest pass *)
StoredFor(revision) == ParseAllValid(GetCommentNotes(repoState[lastPass.repo], revision))

FirstCommitOf(review) == GetFirstCommit(review, RepoPulled)

(* the comment or its written form is among the stored annotations *)
IsMirrored(c, stored) ==
  \E h \in DOMAIN stored : stored[h] = WrittenAndParsed(c) \/ CommentOverlaps(c, stored[h])

====
